---- MODULE Spec2Model ----
(***************************************************************************)
(* A model of librefsm, a hierarchical finite state machine runtime:       *)
(* the Machine (machine.go), its timer table (timer.go) and the Context    *)
(* handed to callbacks (context.go), driven over one validated Definition  *)
(* that has nested states, default children, a Condition and a Junction    *)
(* state, guarded, ancestor and wildcard transitions, declarative timeouts *)
(* and a declared timer.                                                   *)
(*                                                                         *)
(* One enterState / exitState call (with the callback it runs) is one      *)
(* step of the goroutine that executes it; goroutines interleave between   *)
(* steps.  Guards, condition functions and callback results are user code: *)
(* their outcomes are chosen nondeterministically.                         *)
(***************************************************************************)
EXTENDS Integers, Sequences, FiniteSets, TLC

\* ------------------------------------------------------------- bounds ----

\* Capacity of the event channel (WithEventQueueSize).
QueueSize == 2

\* The fire callbacks of timers that may be under way, or launched, at once.
MaxFiring == 1

\* ---------------------------------------------------------- the types ----

StateNormal == "Normal"
StateCondition == "Condition"
StateJunction == "Junction"
StateFinal == "Final"

TimerScopeGlobal == "Global"
TimerScopeState == "State"

WildcardState == "*"

\* The empty StateID: the root above every state, and "no state".
NoState == ""

\* ----------------------------------------------------- the definition ----

StateIDs == {"P", "C1", "C2", "G", "K", "J", "B", "F"}

EventIDs == {"go", "next", "tmo", "in"}

mkState(parent, type, dflt, tmoEvent, declared) ==
    [Parent |-> parent, Type |-> type, DefaultChild |-> dflt,
     TimeoutEvent |-> tmoEvent, DeclaredTimers |-> declared]

\* Definition.states: P is a composite state with children C1, C2 and K
\* (a Condition state) and grandchild G; J is a Junction state.  A
\* TimeoutEvent other than "" stands for Timeout > 0 with that event.
states ==
    [id \in StateIDs |->
        CASE id = "P"  -> mkState(NoState, StateNormal, "C1", "tmo", {})
          [] id = "C1" -> mkState("P", StateNormal, NoState, "", {"t1"})
          [] id = "C2" -> mkState("P", StateNormal, "G", "", {})
          [] id = "G"  -> mkState("C2", StateNormal, NoState, "", {})
          [] id = "K"  -> mkState("P", StateCondition, NoState, "", {})
          [] id = "J"  -> mkState(NoState, StateJunction, NoState, "", {})
          [] id = "B"  -> mkState(NoState, StateNormal, NoState, "tmo", {})
          [] id = "F"  -> mkState(NoState, StateFinal, NoState, "", {})]

\* The values the condition function of a Condition/Junction state may
\* return ("" is a function that declines to choose).
CondResults(id) ==
    CASE id = "K" -> {"C1", "J"}
      [] id = "J" -> {"C2", "B", NoState}
      [] OTHER -> {}

mkTransition(from, event, to, guard, action) ==
    [From |-> from, Event |-> event, To |-> to, Guard |-> guard, Action |-> action]

\* Definition.transitions, in declaration order.  Guard and Action say
\* whether the transition carries one.
transitions ==
    << mkTransition("C1", "next", "C2", TRUE, FALSE),
       mkTransition("C1", "next", "K", FALSE, FALSE),
       mkTransition("P", "next", "B", TRUE, TRUE),
       mkTransition("G", "go", "C1", FALSE, TRUE),
       mkTransition("P", "go", "J", FALSE, FALSE),
       mkTransition("B", "go", "P", FALSE, TRUE),
       mkTransition(WildcardState, "next", "F", TRUE, FALSE),
       mkTransition("G", "next", "C2", TRUE, FALSE),
       mkTransition(WildcardState, "go", "B", FALSE, FALSE),
       mkTransition("B", "tmo", "J", FALSE, FALSE),
       mkTransition("P", "tmo", "B", TRUE, FALSE),
       mkTransition("B", "in", "C2", FALSE, FALSE) >>

TIdx == 1..Len(transitions)

\* Definition.initial: any state whose entry cascade the model follows.
Initials == {"P", "J"}

\* The timer names in use: the declarative timeout timers, one imperative
\* timer started from entry callbacks, one started by Machine.StartTimer.
timeoutName(id) == "_timeout_" \o id

TimerNames == {timeoutName(id) : id \in {s \in StateIDs : states[s].TimeoutEvent # ""}} \cup {"t1", "g1"}

\* The states whose declarative timeout carries a TimeoutAction.
HasTimeoutAction == {"B"}

\* The entry callbacks that may call ctx.StartTimer("t1", d, Event{"tmo"}).
StartsTimer == {"P", "C1"}

\* The entry and exit callbacks that may return an error (every transition
\* action may).
MayFailEnter == StateIDs
MayFailExit == StateIDs

\* ------------------------------------------------ hierarchy navigator ----

parentOf(id) == IF id \in StateIDs THEN states[id].Parent ELSE NoState

\* The indexes, in declaration order, of the transitions for event ev whose
\* source is from (one pass of the loops of findAllTransitions).
RECURSIVE matchingFrom(_, _, _)
matchingFrom(ev, from, i) ==
    IF i > Len(transitions) THEN <<>>
    ELSE (IF transitions[i].Event = ev /\ transitions[i].From = from THEN <<i>> ELSE <<>>)
         \o matchingFrom(ev, from, i + 1)

\* The first loop of findAllTransitions: the current state, then its
\* ancestors, walking Parent until the empty id.
RECURSIVE chainMatches(_, _)
chainMatches(ev, current) ==
    IF current = NoState THEN <<>>
    ELSE matchingFrom(ev, current, 1)
         \o (IF current \notin StateIDs THEN <<>> ELSE chainMatches(ev, states[current].Parent))

findAllTransitionsWildcardFirst(current, ev) ==
    matchingFrom(ev, WildcardState, 1) \o chainMatches(ev, current)

\* Machine.findAllTransitions, on m.currentState = current.
findAllTransitions(current, ev) ==
    chainMatches(ev, current) \o matchingFrom(ev, WildcardState, 1)

\* The ancestors of a, a included, and the root "".
RECURSIVE ancestorsOrSelf(_)
ancestorsOrSelf(a) ==
    IF a = NoState THEN {NoState}
    ELSE {a} \cup (IF a \notin StateIDs THEN {NoState} ELSE ancestorsOrSelf(states[a].Parent))

RECURSIVE walkUp(_, _)
walkUp(current, ancestorsA) ==
    IF current \in ancestorsA THEN current
    ELSE IF current \notin StateIDs THEN NoState
    ELSE walkUp(states[current].Parent, ancestorsA)

findLCARoot(a, b) == IF a = b THEN a ELSE NoState

findLCASkipSelf(a, b) == IF a = b THEN a ELSE walkUp(parentOf(b), ancestorsOrSelf(a))

\* Machine.findLCA
findLCA(a, b) == IF a = b THEN a ELSE walkUp(b, ancestorsOrSelf(a))

\* The states exitToAncestor exits, in the order it exits them.
RECURSIVE exitPath(_, _)
exitPath(from, ancestor) ==
    IF from = NoState \/ from = ancestor THEN <<>>
    ELSE <<from>> \o (IF from \notin StateIDs THEN <<>> ELSE exitPath(states[from].Parent, ancestor))

\* Machine.pathFromAncestor: each state is prepended, so the path runs from
\* just below the ancestor down to the target.
RECURSIVE pathFromAncestor(_, _)
pathFromAncestor(target, ancestor) ==
    IF target = NoState \/ target = ancestor THEN <<>>
    ELSE (IF target \notin StateIDs THEN <<>> ELSE pathFromAncestor(states[target].Parent, ancestor))
         \o <<target>>

\* Machine.isInStateInternal, on m.currentState = current.
RECURSIVE isInStateInternal(_, _)
isInStateInternal(current, id) ==
    IF current = NoState THEN FALSE
    ELSE IF current = id THEN TRUE
    ELSE IF current \notin StateIDs THEN FALSE
    ELSE isInStateInternal(states[current].Parent, id)

\* -------------------------------------------------------- timer table ----

\* timerEntry: action says whether the entry carries a pre-fire action;
\* launched says that its time.Timer has expired and started the goroutine
\* of the fire callback, which has not yet locked timerMu (from then on
\* timer.Stop() comes too late).  The duration is not modelled.
mkTimerEntry(event, scope, owner, action) ==
    [event |-> event, scope |-> scope, ownerState |-> owner, action |-> action,
     launched |-> FALSE]

mkTimer(event, scope, owner) == mkTimerEntry(event, scope, owner, FALSE)

startTimerInternalWithActionKeepArmed(tm, name, event, scope, owner, action) ==
    [n \in (DOMAIN tm) \cup {name} |->
        IF n = name
        THEN [event |-> event, scope |-> scope, ownerState |-> owner, action |-> action,
              launched |-> (name \in DOMAIN tm /\ tm[name].launched)]
        ELSE tm[n]]

\* Machine.startTimerInternalWithAction on timer table tm: an entry of the
\* same name is stopped and deleted, then the new entry is stored.
startTimerInternalWithAction(tm, name, event, scope, owner, action) ==
    [n \in (DOMAIN tm) \cup {name} |->
        IF n = name THEN mkTimerEntry(event, scope, owner, action) ELSE tm[n]]

\* Machine.startTimerInternal: a timer without action.
startTimerInternal(tm, name, event, scope, owner) ==
    startTimerInternalWithAction(tm, name, event, scope, owner, FALSE)

\* Machine.StopTimer
StopTimer(tm, name) == [n \in (DOMAIN tm) \ {name} |-> tm[n]]

cleanupTimersForStateAndGlobal(tm, id) ==
    [n \in {x \in DOMAIN tm : ~(tm[x].scope = TimerScopeGlobal \/ tm[x].ownerState = id)} |-> tm[n]]

\* Machine.cleanupTimersForState
cleanupTimersForState(tm, id) ==
    [n \in {x \in DOMAIN tm : ~(tm[x].scope = TimerScopeState /\ tm[x].ownerState = id)} |-> tm[n]]

\* Machine.TimerActive
TimerActive(tm, name) == name \in DOMAIN tm

\* The timer part of exitState: the state-scoped timers of id, its declared
\* timers, its declarative timeout timer.
exitTimers(tm, id) ==
    LET t1 == cleanupTimersForState(tm, id)
        t2 == [n \in (DOMAIN t1) \ states[id].DeclaredTimers |-> t1[n]]
    IN  StopTimer(t2, timeoutName(id))

enterTimersUnlessTop(tm, id) ==
    IF states[id].TimeoutEvent # "" /\ states[id].Parent # NoState
    THEN startTimerInternalWithAction(tm, timeoutName(id), states[id].TimeoutEvent,
                                      TimerScopeState, id, id \in HasTimeoutAction)
    ELSE tm

\* The timer part of enterState: the declarative timeout timer of id.
enterTimers(tm, id) ==
    IF states[id].TimeoutEvent # ""
    THEN startTimerInternalWithAction(tm, timeoutName(id), states[id].TimeoutEvent,
                                      TimerScopeState, id, id \in HasTimeoutAction)
    ELSE tm

\* A fire callback under way: the closure of startTimerInternalWithAction
\* with the name, event, scope and owner it has captured.  In stage
\* "launched" it has not yet locked timerMu; in stage "deleted" it has
\* found an entry under its name, deleted it and taken that entry's action.
mkFire(name, event, scope, owner, action, stage) ==
    [name |-> name, event |-> event, scope |-> scope, ownerState |-> owner,
     action |-> action, stage |-> stage]

\* The closure of entry e, registered under name, before it locks timerMu.
launchedOf(name, e) == mkFire(name, e.event, e.scope, e.ownerState, FALSE, "launched")

RECURSIVE launchedSeq(_, _)
launchedSeq(tm, names) ==
    IF names = {} THEN << >>
    ELSE LET n == CHOOSE x \in names : TRUE
         IN  << launchedOf(n, tm[n]) >> \o launchedSeq(tm, names \ {n})

\* timer.Stop() on an entry whose callback is already launched does not
\* stop the callback: the closures that survive when table tm becomes tm2,
\* those of the launched entries that were stopped (deleted or replaced).
staleClosures(tm, tm2) ==
    launchedSeq(tm, {n \in DOMAIN tm : tm[n].launched /\ (n \notin DOMAIN tm2 \/ tm2[n] # tm[n])})

\* ---------------------------------------------------------- the state ----

VARIABLES
    initial,        \* Definition.initial
    currentState,   \* Machine.currentState
    timers,         \* Machine.timers: name -> timerEntry, for the active names
    events,         \* Machine.events: the buffered channel, oldest first
    mu,             \* Machine.mu: the goroutine holding the write lock, or ""
    pc,             \* where each goroutine is
    todo,           \* per goroutine: the calls its cascade has still to make
    casc,           \* per goroutine: the event and transition of its cascade
    log,            \* per goroutine: the callbacks its cascade has run
    syncRes,        \* what the last SendSync received on its done channel
    firing,         \* the fire callbacks of timers that are under way
    cancelled,      \* Machine.ctx is cancelled (Stop has called m.cancel)
    nav,            \* a call of findLCA and of the two path functions under way
    reset,          \* a call of Machine.resetTimer between its two critical sections
    active,         \* the states whose entry callback has run and whose exit has not run since
    before,         \* the timer table when processEvent took the event it is processing
    chain           \* enterState on a definition of its own: the definition, the state entered

vars == <<initial, currentState, timers, events, mu, pc, todo, casc, log, syncRes, firing, cancelled, nav, reset, active, before, chain>>

\* The goroutines: the caller of Start, the event loop, an external caller.
Threads == {"start", "disp", "ext"}

mkOp(k, s, x) == [k |-> k, s |-> s, x |-> x, i |-> 0]
mkActionOp(i) == [k |-> "action", s |-> "", x |-> "", i |-> i]

mkCasc(ev, sync, from, chosen, res) ==
    [ev |-> ev, sync |-> sync, from |-> from, chosen |-> chosen, res |-> res]

NoCasc == mkCasc("", FALSE, NoState, 0, "")

mkEvent(id, sync) == [ID |-> id, sync |-> sync]

\* No call of the hierarchy navigator is under way.
NoNav == [pc |-> "", a |-> NoState, b |-> NoState, lca |-> NoState, exits |-> << >>, enters |-> << >>]

\* No definition is under test.
NoChain == [def |-> [initial |-> NoState, states |-> << >>], pc |-> "", id |-> NoState]

\* No call of resetTimer is under way.
NoReset == [t |-> "", name |-> "", found |-> FALSE, event |-> "", scope |-> "", ownerState |-> NoState]

NewMachine ==
    /\ initial \in Initials
    /\ currentState = NoState
    /\ timers = << >>
    /\ events = << >>
    /\ mu = ""
    /\ pc = [t \in Threads |-> CASE t = "start" -> "init" [] t = "disp" -> "off" [] OTHER -> "idle"]
    /\ todo = [t \in Threads |-> << >>]
    /\ casc = [t \in Threads |-> NoCasc]
    /\ log = [t \in Threads |-> << >>]
    /\ syncRes = ""
    /\ firing = << >>
    /\ cancelled = FALSE

\* No call is under way, no state has been entered, no event taken and no
\* definition is under test.
AtRest == reset = NoReset /\ active = {} /\ before = << >> /\ chain = NoChain

Init == NewMachine /\ nav = NoNav /\ AtRest

SendFront(q, e) == IF Len(q) < QueueSize THEN << e >> \o q ELSE q

SendDropOldest(q, e) == IF Len(q) < QueueSize THEN Append(q, e) ELSE Append(Tail(q), e)

\* Machine.Send on queue q: a full channel drops the event.
Send(q, e) == IF Len(q) < QueueSize THEN Append(q, e) ELSE q

\* ------------------------------------------------ the end of a cascade ----

\* The cascade of goroutine t has its result res ("nil" or "err"): the
\* calls still to make are dropped, and what remains is to return.
Finish(t, res) ==
    /\ casc' = [casc EXCEPT ![t].res = res]
    /\ todo' = [todo EXCEPT ![t] = << >>]
    /\ pc' = [pc EXCEPT ![t] = "ret"]
    /\ UNCHANGED <<mu, syncRes>>

AfterIgnoringError(t, rest, ok) ==
    IF rest = << >> THEN Finish(t, "nil")
    ELSE /\ todo' = [todo EXCEPT ![t] = rest]
         /\ UNCHANGED <<pc, mu, syncRes, casc>>

\* After one call of the cascade: an error ends it, as does the last call.
After(t, rest, ok) ==
    IF ~ok THEN Finish(t, "err")
    ELSE IF rest = << >> THEN Finish(t, "nil")
    ELSE /\ todo' = [todo EXCEPT ![t] = rest]
         /\ UNCHANGED <<pc, mu, syncRes, casc>>

Running(t) == pc[t] = "run" /\ todo[t] # << >>

\* --------------------------------------------------- entering, exiting ----

\* An entry of a cascade's log: a guard evaluated (k = "guard", i the
\* transition, x what it returned), a callback run ("exit", "action",
\* "enter" with x the state entered from), the error a callback returned
\* ("error"), what a condition function returned ("cond", x), the state
\* change callback invoked ("notify", from s to x).
mkLog(k, s, x, i) == [k |-> k, s |-> s, x |-> x, i |-> i]

\* What the condition function of id may return; a state of another type
\* has none.
condChoice(id) ==
    IF states[id].Type \in {StateCondition, StateJunction} THEN CondResults(id) ELSE {NoState}

\* The calls enterState(id) goes on to make once the entry callback has
\* returned nil and the condition function, if any, has returned nxt: a
\* resolved Condition/Junction state is exited and the next state entered;
\* otherwise the default child is entered.
enterContinuation(id, nxt) ==
    IF states[id].Type \in {StateCondition, StateJunction} /\ nxt # NoState
    THEN << mkOp("exit", id, ""), mkOp("enter", nxt, id) >>
    ELSE IF states[id].DefaultChild # NoState
    THEN << mkOp("enter", states[id].DefaultChild, id) >>
    ELSE << >>

EnterStepSetAfter(t) ==
    /\ Running(t)
    /\ Head(todo[t]).k = "enter"
    /\ LET id == Head(todo[t]).s
           rest == Tail(todo[t])
       IN  IF id \notin StateIDs
           THEN /\ After(t, rest, FALSE)
                /\ UNCHANGED <<initial, chain, before, active, reset, cancelled, nav, firing, currentState, timers, events, log>>
           ELSE \E ok \in BOOLEAN, st \in BOOLEAN, nxt \in condChoice(id) :
                /\ ~ok => id \in MayFailEnter
                /\ st => id \in StartsTimer
                /\ currentState' = IF ok THEN id ELSE currentState
                /\ timers' = IF st
                             THEN startTimerInternal(enterTimers(timers, id), "t1", "tmo",
                                                     TimerScopeState, id)
                             ELSE enterTimers(timers, id)
                /\ log' = [log EXCEPT ![t] =
                             @ \o << mkLog("enter", id, Head(todo[t]).x, 0) >>
                               \o (IF ~ok THEN << mkLog("error", id, "enter", 0) >>
                                   ELSE IF states[id].Type \in {StateCondition, StateJunction}
                                   THEN << mkLog("cond", id, nxt, 0) >>
                                   ELSE << >>)]
                /\ After(t, enterContinuation(id, nxt) \o rest, ok)
                /\ firing' = firing \o staleClosures(timers, timers')
                /\ UNCHANGED <<initial, chain, before, active, reset, cancelled, nav, events>>

\* Machine.enterState(id, event, from) by goroutine t, up to its recursive
\* call: the current state is set, the declarative timeout timer started,
\* the entry callback run (it may start timer "t1" through its Context and
\* may return an error), the condition function evaluated.
EnterCall(t) ==
    /\ Running(t)
    /\ Head(todo[t]).k = "enter"
    /\ LET id == Head(todo[t]).s
           rest == Tail(todo[t])
       IN  IF id \notin StateIDs
           THEN /\ After(t, rest, FALSE)
                /\ UNCHANGED <<initial, chain, before, reset, cancelled, nav, firing, currentState, timers, events, log>>
           ELSE \E ok \in BOOLEAN, st \in BOOLEAN, nxt \in condChoice(id) :
                /\ ~ok => id \in MayFailEnter
                /\ st => id \in StartsTimer
                /\ currentState' = id
                /\ timers' = IF st
                             THEN startTimerInternal(enterTimers(timers, id), "t1", "tmo",
                                                     TimerScopeState, id)
                             ELSE enterTimers(timers, id)
                /\ log' = [log EXCEPT ![t] =
                             @ \o << mkLog("enter", id, Head(todo[t]).x, 0) >>
                               \o (IF ~ok THEN << mkLog("error", id, "enter", 0) >>
                                   ELSE IF states[id].Type \in {StateCondition, StateJunction}
                                   THEN << mkLog("cond", id, nxt, 0) >>
                                   ELSE << >>)]
                /\ After(t, enterContinuation(id, nxt) \o rest, ok)
                /\ firing' = firing \o staleClosures(timers, timers')
                /\ UNCHANGED <<initial, chain, before, reset, cancelled, nav, events>>

\* enterState where the history of entries and exits is not followed.
EnterStep(t) == EnterCall(t) /\ UNCHANGED active

\* The same, the states entered being recorded.
EnterTracked(t) ==
    /\ EnterCall(t)
    /\ active' = active \cup ({Head(todo[t]).s} \cap StateIDs)

\* Machine.exitState(id) by goroutine t: the timers of id are cancelled,
\* then the exit callback runs and may return an error.
ExitCall(t) ==
    /\ Running(t)
    /\ Head(todo[t]).k = "exit"
    /\ LET id == Head(todo[t]).s
           rest == Tail(todo[t])
       IN  IF id \notin StateIDs
           THEN /\ After(t, rest, TRUE)
                /\ UNCHANGED <<initial, chain, before, reset, cancelled, nav, firing, currentState, timers, events, log>>
           ELSE \E ok \in BOOLEAN :
                /\ ~ok => id \in MayFailExit
                /\ timers' = exitTimers(timers, id)
                /\ log' = [log EXCEPT ![t] =
                             @ \o << mkLog("exit", id, "", 0) >>
                               \o (IF ok THEN << >> ELSE << mkLog("error", id, "exit", 0) >>)]
                /\ After(t, rest, ok)
                /\ firing' = firing \o staleClosures(timers, timers')
                /\ UNCHANGED <<initial, chain, before, reset, cancelled, nav, currentState, events>>

\* exitState where the history of entries and exits is not followed.
ExitStep(t) == ExitCall(t) /\ UNCHANGED active

\* The same, the states exited being recorded.
ExitTracked(t) ==
    /\ ExitCall(t)
    /\ active' = active \ {Head(todo[t]).s}

\* The transition action of executeTransition: it may return an error.
ActionStep(t) ==
    /\ Running(t)
    /\ Head(todo[t]).k = "action"
    /\ \E ok \in BOOLEAN :
        /\ log' = [log EXCEPT ![t] =
                     @ \o << mkLog("action", "", "", Head(todo[t]).i) >>
                       \o (IF ok THEN << >> ELSE << mkLog("error", "", "action", Head(todo[t]).i) >>)]
        /\ After(t, Tail(todo[t]), ok)
    /\ UNCHANGED <<initial, chain, before, active, reset, cancelled, nav, firing, currentState, timers, events>>

notifiesAlways(t, from, current) == TRUE

\* Whether the state change callback is invoked at the end of the cascade
\* of t: executeTransition compares the states, SetState does not.
notifies(t, from, current) == t = "ext" \/ from # current

\* The state change notification that ends executeTransition and SetState.
NotifyStep(t) ==
    /\ Running(t)
    /\ Head(todo[t]).k = "notify"
    /\ log' = [log EXCEPT ![t] =
                 IF notifies(t, casc[t].from, currentState)
                 THEN Append(@, mkLog("notify", casc[t].from, currentState, 0))
                 ELSE @]
    /\ After(t, Tail(todo[t]), TRUE)
    /\ UNCHANGED <<initial, chain, before, active, reset, cancelled, nav, firing, currentState, timers, events>>

\* ---------------------------------------------------------------- Start ----

\* Machine.Start: enterState(initial) by the caller, without taking mu.
Start ==
    /\ pc["start"] = "init"
    /\ pc' = [pc EXCEPT !["start"] = "run"]
    /\ todo' = [todo EXCEPT !["start"] = << mkOp("enter", initial, NoState) >>]
    /\ UNCHANGED <<initial, chain, before, active, reset, cancelled, nav, firing, currentState, timers, events, mu, casc, log, syncRes>>

\* Start returns: the event loop is launched when enterState returned nil.
StartReturn ==
    /\ pc["start"] = "ret"
    /\ pc' = IF casc["start"].res = "nil"
             THEN [pc EXCEPT !["start"] = "done", !["disp"] = "idle"]
             ELSE [pc EXCEPT !["start"] = "failed"]
    /\ casc' = [casc EXCEPT !["start"] = NoCasc]
    /\ log' = [log EXCEPT !["start"] = << >>]
    /\ UNCHANGED <<initial, chain, before, active, reset, cancelled, nav, firing, currentState, timers, events, mu, todo, syncRes>>

\* ------------------------------------------------------ event dispatch ----

RECURSIVE tryTransitionsLast(_, _)
tryTransitionsLast(cands, gv) ==
    IF cands = << >> THEN [chosen |-> 0, guards |-> << >>]
    ELSE LET i == Head(cands)
         IN  IF ~transitions[i].Guard THEN [chosen |-> i, guards |-> << >>]
             ELSE IF gv[i] THEN [chosen |-> i, guards |-> << mkLog("guard", "", "true", i) >>]
             ELSE IF Tail(cands) = << >>
             THEN [chosen |-> i, guards |-> << mkLog("guard", "", "false", i) >>]
             ELSE LET r == tryTransitionsLast(Tail(cands), gv)
                  IN  [chosen |-> r.chosen,
                       guards |-> << mkLog("guard", "", "false", i) >> \o r.guards]

\* The loop of processEvent over the candidates cands, gv giving what each
\* guard returns: the first candidate without a guard, or whose guard
\* returns true, is chosen (0: none); guards lists the guards evaluated.
RECURSIVE tryTransitions(_, _)
tryTransitions(cands, gv) ==
    IF cands = << >> THEN [chosen |-> 0, guards |-> << >>]
    ELSE LET i == Head(cands)
         IN  IF ~transitions[i].Guard THEN [chosen |-> i, guards |-> << >>]
             ELSE IF gv[i] THEN [chosen |-> i, guards |-> << mkLog("guard", "", "true", i) >>]
             ELSE LET r == tryTransitions(Tail(cands), gv)
                  IN  [chosen |-> r.chosen,
                       guards |-> << mkLog("guard", "", "false", i) >> \o r.guards]

\* Machine.enterFromAncestor: the target itself when it is the ancestor,
\* else the path below the ancestor, each state entered from the one before.
enterFromAncestor(target, ancestor, fromState) ==
    IF target = ancestor THEN << mkOp("enter", target, fromState) >>
    ELSE LET path == pathFromAncestor(target, ancestor)
         IN  [k \in 1..Len(path) |->
                mkOp("enter", path[k], IF k = 1 THEN fromState ELSE path[k - 1])]

\* Machine.exitToAncestor
exitToAncestor(from, ancestor) ==
    LET path == exitPath(from, ancestor)
    IN  [k \in 1..Len(path) |-> mkOp("exit", path[k], "")]

executeTransitionActionFirst(i, fromState) ==
    LET toState == transitions[i].To
        lca == findLCA(fromState, toState)
    IN  (IF transitions[i].Action THEN << mkActionOp(i) >> ELSE << >>)
        \o exitToAncestor(fromState, lca)
        \o enterFromAncestor(toState, lca, fromState)
        \o << mkOp("notify", "", "") >>

\* Machine.executeTransition of transition i from fromState: the calls it
\* makes, in order.
executeTransition(i, fromState) ==
    LET toState == transitions[i].To
        lca == findLCA(fromState, toState)
    IN  exitToAncestor(fromState, lca)
        \o (IF transitions[i].Action THEN << mkActionOp(i) >> ELSE << >>)
        \o enterFromAncestor(toState, lca, fromState)
        \o << mkOp("notify", "", "") >>

\* eventLoop: the next event is received from the channel.
Dequeue ==
    /\ pc["disp"] = "idle"
    /\ events # << >>
    /\ events' = Tail(events)
    /\ pc' = [pc EXCEPT !["disp"] = "got"]
    /\ casc' = [casc EXCEPT !["disp"] = mkCasc(Head(events).ID, Head(events).sync, NoState, 0, "")]
    /\ UNCHANGED <<initial, chain, before, active, reset, cancelled, nav, firing, currentState, timers, mu, todo, log, syncRes>>

\* Machine.processEvent up to the call of executeTransition: mu is locked,
\* the candidates are found and their guards evaluated; without a chosen
\* transition it returns nil at once.
ProcessCall ==
    /\ pc["disp"] = "got"
    /\ mu = ""
    /\ LET c == casc["disp"]
           cands == findAllTransitions(currentState, c.ev)
           guarded == {i \in TIdx : transitions[i].Guard /\ \E k \in 1..Len(cands) : cands[k] = i}
       IN  \E gv \in [guarded -> BOOLEAN] :
             LET r == tryTransitions(cands, gv)
             IN  /\ log' = [log EXCEPT !["disp"] = r.guards]
                 /\ mu' = "disp"
                 /\ IF r.chosen = 0
                    THEN /\ casc' = [casc EXCEPT !["disp"] = mkCasc(c.ev, c.sync, currentState, 0, "nil")]
                         /\ pc' = [pc EXCEPT !["disp"] = "ret"]
                         /\ UNCHANGED todo
                    ELSE /\ casc' = [casc EXCEPT !["disp"] = mkCasc(c.ev, c.sync, currentState, r.chosen, "")]
                         /\ pc' = [pc EXCEPT !["disp"] = "run"]
                         /\ todo' = [todo EXCEPT !["disp"] = executeTransition(r.chosen, currentState)]
    /\ UNCHANGED <<initial, chain, active, reset, cancelled, nav, firing, currentState, timers, events, syncRes>>

\* processEvent where the table it found is not kept.
ProcessEvent == ProcessCall /\ UNCHANGED before

\* The same, the timer table of that moment being kept.
ProcessTracked == ProcessCall /\ before' = timers

EventReturnNil ==
    /\ pc["disp"] = "ret"
    /\ mu' = ""
    /\ pc' = [pc EXCEPT !["disp"] = "idle"]
    /\ syncRes' = IF casc["disp"].sync THEN "nil" ELSE syncRes
    /\ casc' = [casc EXCEPT !["disp"] = NoCasc]
    /\ log' = [log EXCEPT !["disp"] = << >>]
    /\ UNCHANGED <<initial, chain, before, active, reset, cancelled, nav, firing, currentState, timers, events, todo>>

EventReturnStopOnError ==
    /\ pc["disp"] = "ret"
    /\ mu' = ""
    /\ pc' = [pc EXCEPT !["disp"] = IF casc["disp"].res = "err" THEN "off" ELSE "idle"]
    /\ syncRes' = IF casc["disp"].sync THEN casc["disp"].res ELSE syncRes
    /\ casc' = [casc EXCEPT !["disp"] = NoCasc]
    /\ log' = [log EXCEPT !["disp"] = << >>]
    /\ UNCHANGED <<initial, chain, before, active, reset, cancelled, nav, firing, currentState, timers, events, todo>>

\* processEvent returns to eventLoop: mu is unlocked, and the result of a
\* sync event is sent on its done channel.
EventReturn ==
    /\ pc["disp"] = "ret"
    /\ mu' = ""
    /\ pc' = [pc EXCEPT !["disp"] = "idle"]
    /\ syncRes' = IF casc["disp"].sync THEN casc["disp"].res ELSE syncRes
    /\ casc' = [casc EXCEPT !["disp"] = NoCasc]
    /\ log' = [log EXCEPT !["disp"] = << >>]
    /\ UNCHANGED <<initial, chain, before, active, reset, cancelled, nav, firing, currentState, timers, events, todo>>

\* ------------------------------------------------- the external caller ----

\* The client calls the machine once Start has returned nil.
Started == pc["start"] = "done"

\* The events the external caller sends, and the ids it passes to SetState
\* ("X" is not a declared state).
SentEvents == {"go", "next"}
SetTargets == {"C2", "J", "X"}

\* Machine.Send(Event{ID: e}) by the external caller.
DoSend(e) ==
    /\ Started
    /\ pc["ext"] = "idle"
    /\ events' = Send(events, mkEvent(e, FALSE))
    /\ UNCHANGED <<initial, chain, before, active, reset, cancelled, nav, firing, currentState, timers, mu, pc, todo, casc, log, syncRes>>

\* Machine.SendSync(Event{ID: e}) by the external caller: the envelope is
\* sent and the caller waits on its done channel.
DoSendSync(e) ==
    /\ Started
    /\ pc["ext"] = "idle"
    /\ events' = Send(events, mkEvent(e, TRUE))
    /\ pc' = [pc EXCEPT !["ext"] = "sync"]
    /\ UNCHANGED <<initial, chain, before, active, reset, cancelled, nav, firing, currentState, timers, mu, todo, casc, log, syncRes>>

SendSyncReturnAnyway ==
    /\ pc["ext"] = "sync"
    /\ pc' = [pc EXCEPT !["ext"] = "idle"]
    /\ syncRes' = ""
    /\ UNCHANGED <<initial, chain, before, active, reset, cancelled, nav, firing, currentState, timers, events, mu, todo, casc, log>>

\* SendSync returns what it received on the done channel.
SendSyncReturn ==
    /\ pc["ext"] = "sync"
    /\ syncRes # ""
    /\ pc' = [pc EXCEPT !["ext"] = "idle"]
    /\ syncRes' = ""
    /\ UNCHANGED <<initial, chain, before, active, reset, cancelled, nav, firing, currentState, timers, events, mu, todo, casc, log>>

SetStateCallExitChain(id) ==
    /\ pc["ext"] = "idle"
    /\ mu = ""
    /\ mu' = "ext"
    /\ IF id \notin StateIDs
       THEN /\ casc' = [casc EXCEPT !["ext"] = mkCasc("", FALSE, currentState, 0, "err")]
            /\ pc' = [pc EXCEPT !["ext"] = "ret"]
            /\ UNCHANGED todo
       ELSE IF currentState = id
       THEN /\ casc' = [casc EXCEPT !["ext"] = mkCasc("", FALSE, currentState, 0, "nil")]
            /\ pc' = [pc EXCEPT !["ext"] = "ret"]
            /\ UNCHANGED todo
       ELSE /\ casc' = [casc EXCEPT !["ext"] = mkCasc("", FALSE, currentState, 0, "")]
            /\ pc' = [pc EXCEPT !["ext"] = "run"]
            /\ todo' = [todo EXCEPT !["ext"] =
                          exitToAncestor(currentState, NoState)
                          \o << mkOp("enter", id, currentState),
                                mkOp("notify", "", "") >>]
    /\ UNCHANGED <<initial, chain, before, active, reset, cancelled, nav, firing, currentState, timers, events, log, syncRes>>

SetStateCallUnchecked(id) ==
    /\ pc["ext"] = "idle"
    /\ mu = ""
    /\ mu' = "ext"
    /\ IF currentState = id
       THEN /\ casc' = [casc EXCEPT !["ext"] = mkCasc("", FALSE, currentState, 0, "nil")]
            /\ pc' = [pc EXCEPT !["ext"] = "ret"]
            /\ UNCHANGED todo
       ELSE /\ casc' = [casc EXCEPT !["ext"] = mkCasc("", FALSE, currentState, 0, "")]
            /\ pc' = [pc EXCEPT !["ext"] = "run"]
            /\ todo' = [todo EXCEPT !["ext"] =
                          << mkOp("exit", currentState, ""),
                             mkOp("enter", id, currentState),
                             mkOp("notify", "", "") >>]
    /\ UNCHANGED <<initial, chain, before, active, reset, cancelled, nav, firing, currentState, timers, events, log, syncRes>>

\* Machine.SetState(id) by the external caller, up to its first exitState:
\* mu is locked; a state that is already current returns nil at once.
SetStateCall(id) ==
    /\ pc["ext"] = "idle"
    /\ mu = ""
    /\ mu' = "ext"
    /\ IF id \notin StateIDs
       THEN /\ casc' = [casc EXCEPT !["ext"] = mkCasc("", FALSE, currentState, 0, "err")]
            /\ pc' = [pc EXCEPT !["ext"] = "ret"]
            /\ UNCHANGED todo
       ELSE IF currentState = id
       THEN /\ casc' = [casc EXCEPT !["ext"] = mkCasc("", FALSE, currentState, 0, "nil")]
            /\ pc' = [pc EXCEPT !["ext"] = "ret"]
            /\ UNCHANGED todo
       ELSE /\ casc' = [casc EXCEPT !["ext"] = mkCasc("", FALSE, currentState, 0, "")]
            /\ pc' = [pc EXCEPT !["ext"] = "run"]
            /\ todo' = [todo EXCEPT !["ext"] =
                          << mkOp("exit", currentState, ""),
                             mkOp("enter", id, currentState),
                             mkOp("notify", "", "") >>]
    /\ UNCHANGED <<initial, chain, before, active, reset, cancelled, nav, firing, currentState, timers, events, log, syncRes>>

\* SetState called once Start has returned.
DoSetState(id) == Started /\ SetStateCall(id)

\* SetState returns: mu is unlocked.
SetStateReturn ==
    /\ pc["ext"] = "ret"
    /\ mu' = ""
    /\ pc' = [pc EXCEPT !["ext"] = "idle"]
    /\ casc' = [casc EXCEPT !["ext"] = NoCasc]
    /\ log' = [log EXCEPT !["ext"] = << >>]
    /\ UNCHANGED <<initial, chain, before, active, reset, cancelled, nav, firing, currentState, timers, events, todo, syncRes>>

\* --------------------------------------------------------------- timers ----

\* The function time.AfterFunc runs when timer name expires: the entry is
\* deleted and its event sent.
TimerFire(name) ==
    /\ name \in DOMAIN timers
    /\ timers' = [n \in (DOMAIN timers) \ {name} |-> timers[n]]
    /\ events' = Send(events, mkEvent(timers[name].event, FALSE))
    /\ UNCHANGED <<initial, chain, before, active, reset, cancelled, nav, firing, currentState, mu, pc, todo, casc, log, syncRes>>

\* ------------------------------------------------------- specifications ----

Next ==
    \/ Start
    \/ StartReturn
    \/ \E t \in Threads : EnterStep(t)
    \/ \E t \in Threads : ExitStep(t)
    \/ \E t \in Threads : ActionStep(t)
    \/ \E t \in Threads : NotifyStep(t)
    \/ Dequeue
    \/ ProcessEvent
    \/ EventReturn
    \/ \E e \in SentEvents : DoSend(e)
    \/ \E e \in SentEvents : DoSendSync(e)
    \/ SendSyncReturn
    \/ \E id \in SetTargets : DoSetState(id)
    \/ SetStateReturn
    \/ \E name \in TimerNames : TimerFire(name)

Spec == Init /\ [][Next]_vars

\* Machine.SetState called by another goroutine once Start has been
\* called: Start runs enterState without taking mu, so nothing makes the
\* caller wait for it.
SetStateAnytime(id) == pc["start"] # "init" /\ SetStateCall(id)

NextRace ==
    \/ Next
    \/ \E id \in SetTargets : SetStateAnytime(id)

\* The machine with callers that do not wait for Start to return.
SpecRace == Init /\ [][NextRace]_vars

\* Context.CurrentState / Context.IsInState called by the callback (guard,
\* exit, action, entry, condition function) that goroutine t has run last:
\* Machine.CurrentState asks for the read lock of mu.
CtxCurrentState(t) ==
    /\ pc[t] \in {"run", "ret"}
    /\ log[t] # << >>
    /\ log[t][Len(log[t])].k \in {"guard", "exit", "action", "enter", "cond", "error"}
    /\ pc' = [pc EXCEPT ![t] = "rlock"]
    /\ UNCHANGED <<initial, chain, before, active, reset, cancelled, nav, firing, currentState, timers, events, mu, todo, casc, log, syncRes>>

\* mu.RLock() is granted when no goroutine holds the write lock; a
\* sync.RWMutex is not reentrant. The query returns and the cascade goes on.
RLockReturn(t) ==
    /\ pc[t] = "rlock"
    /\ mu = ""
    /\ pc' = [pc EXCEPT ![t] = IF todo[t] = << >> THEN "ret" ELSE "run"]
    /\ UNCHANGED <<initial, chain, before, active, reset, cancelled, nav, firing, currentState, timers, events, mu, todo, casc, log, syncRes>>

NextCtx ==
    \/ Next
    \/ \E t \in Threads : CtxCurrentState(t)
    \/ \E t \in Threads : RLockReturn(t)

\* The machine with callbacks that query the current state through their
\* Context.
SpecCtx == Init /\ [][NextCtx]_vars

\* ------------------------------------------- timers, callback by callback ----

\* The fire callbacks that may still run: those launched and not yet at
\* timerMu, and those under way.
Pending == Cardinality({n \in DOMAIN timers : timers[n].launched}) + Len(firing)

RemoveAt(seq, i) == [k \in 1..(Len(seq) - 1) |-> IF k < i THEN seq[k] ELSE seq[k + 1]]

\* The time.Timer of entry name expires: the runtime starts the goroutine
\* of its fire callback.
Launch(name) ==
    /\ name \in DOMAIN timers
    /\ ~timers[name].launched
    /\ Pending < MaxFiring
    /\ timers' = [timers EXCEPT ![name].launched = TRUE]
    /\ UNCHANGED <<initial, chain, before, active, reset, cancelled, nav, firing, currentState, events, mu, pc, todo, casc, log, syncRes>>

FireBeginKeepEntry(name) ==
    /\ name \in DOMAIN timers
    /\ timers[name].launched \/ Pending < MaxFiring
    /\ timers' = [timers EXCEPT ![name].launched = FALSE]
    /\ firing' = Append(firing, mkFire(name, timers[name].event, timers[name].scope,
                                       timers[name].ownerState, timers[name].action, "deleted"))
    /\ UNCHANGED <<initial, chain, before, active, reset, cancelled, nav, currentState, events, mu, pc, todo, casc, log, syncRes>>

\* The fire callback of entry name locks timerMu, finds the entry, deletes
\* it and unlocks (timer.go 35-42); its action and its Send are still to
\* come.
FireBegin(name) ==
    /\ name \in DOMAIN timers
    /\ timers[name].launched \/ Pending < MaxFiring
    /\ timers' = [n \in (DOMAIN timers) \ {name} |-> timers[n]]
    /\ firing' = Append(firing, mkFire(name, timers[name].event, timers[name].scope,
                                       timers[name].ownerState, timers[name].action, "deleted"))
    /\ UNCHANGED <<initial, chain, before, active, reset, cancelled, nav, currentState, events, mu, pc, todo, casc, log, syncRes>>

\* A fire callback whose entry was stopped or replaced after its launch
\* locks timerMu: without an entry under its name it ends; else it deletes
\* the entry that is there now and takes that entry's action and duration.
\* The time.Timer of the deleted entry is not stopped: its own callback is
\* still to come.
StaleRunWithin(i, max) ==
    /\ i \in 1..Len(firing)
    /\ firing[i].stage = "launched"
    /\ LET c == firing[i]
       IN  IF c.name \notin DOMAIN timers
           THEN /\ firing' = RemoveAt(firing, i)
                /\ UNCHANGED timers
           ELSE LET e == timers[c.name]
                IN  /\ e.launched \/ Pending < max
                    /\ timers' = [n \in (DOMAIN timers) \ {c.name} |-> timers[n]]
                    /\ firing' = [firing EXCEPT ![i] =
                                     mkFire(c.name, c.event, c.scope, c.ownerState, e.action, "deleted")]
                                 \o << launchedOf(c.name, e) >>
    /\ UNCHANGED <<initial, chain, before, active, reset, cancelled, nav, currentState, events, mu, pc, todo, casc, log, syncRes>>

\* The same within the bound on the callbacks under way.
StaleRun(i) == StaleRunWithin(i, MaxFiring)

FireActionSendOnError(i) ==
    /\ i \in 1..Len(firing)
    /\ firing[i].stage = "deleted"
    /\ LET c == firing[i]
       IN  \E ok \in BOOLEAN :
             /\ ~ok => c.action
             /\ IF ok
                THEN /\ events' = Send(events, mkEvent(c.event, FALSE))
                     /\ firing' = RemoveAt(firing, i)
                     /\ UNCHANGED timers
                ELSE /\ timers' = startTimerInternalWithAction(timers, c.name, c.event, c.scope,
                                                               c.ownerState, c.action)
                     /\ firing' = RemoveAt(firing, i) \o staleClosures(timers, timers')
                     /\ events' = Send(events, mkEvent(c.event, FALSE))
    /\ UNCHANGED <<initial, chain, before, active, reset, cancelled, nav, currentState, mu, pc, todo, casc, log, syncRes>>

\* The rest of a fire callback (timer.go 46-57): the action, if any, runs
\* on the timer's goroutine; when it fails the timer is started again with
\* the closure's event, scope and owner and the entry's action, else the
\* event is sent.
FireAction(i) ==
    /\ i \in 1..Len(firing)
    /\ firing[i].stage = "deleted"
    /\ LET c == firing[i]
       IN  \E ok \in BOOLEAN :
             /\ ~ok => c.action
             /\ IF ok
                THEN /\ events' = Send(events, mkEvent(c.event, FALSE))
                     /\ firing' = RemoveAt(firing, i)
                     /\ UNCHANGED timers
                ELSE /\ timers' = startTimerInternalWithAction(timers, c.name, c.event, c.scope,
                                                               c.ownerState, c.action)
                     /\ firing' = RemoveAt(firing, i) \o staleClosures(timers, timers')
                     /\ UNCHANGED events
    /\ UNCHANGED <<initial, chain, before, active, reset, cancelled, nav, currentState, mu, pc, todo, casc, log, syncRes>>

\* Machine.StopTimer(name) by the external caller.
ExtStopTimer(name) ==
    /\ Started
    /\ pc["ext"] = "idle"
    /\ name \in DOMAIN timers
    /\ timers' = StopTimer(timers, name)
    /\ firing' = firing \o staleClosures(timers, timers')
    /\ UNCHANGED <<initial, chain, before, active, reset, cancelled, nav, currentState, events, mu, pc, todo, casc, log, syncRes>>

\* The names the external caller starts timers under, with event "go".
GlobalNames == {"g1", "t1"}

\* Machine.StartTimer(name, d, Event{"go"}) by the external caller: a
\* timer of Global scope without owner.
ExtStartTimer(name) ==
    /\ Started
    /\ pc["ext"] = "idle"
    /\ timers' = startTimerInternal(timers, name, "go", TimerScopeGlobal, NoState)
    /\ timers' # timers
    /\ firing' = firing \o staleClosures(timers, timers')
    /\ UNCHANGED <<initial, chain, before, active, reset, cancelled, nav, currentState, events, mu, pc, todo, casc, log, syncRes>>

\* The events the external caller sends where the timers are followed
\* callback by callback.
TimerSends == {"go"}

NextTimer ==
    \/ Start
    \/ StartReturn
    \/ \E t \in Threads : EnterStep(t)
    \/ \E t \in Threads : ExitStep(t)
    \/ \E t \in Threads : ActionStep(t)
    \/ \E t \in Threads : NotifyStep(t)
    \/ Dequeue
    \/ ProcessEvent
    \/ EventReturn
    \/ \E e \in TimerSends : DoSend(e)
    \/ \E name \in TimerNames : Launch(name)
    \/ \E name \in TimerNames : FireBegin(name)
    \/ \E i \in 1..MaxFiring : StaleRun(i)
    \/ \E i \in 1..MaxFiring : FireAction(i)
    \/ \E name \in TimerNames : ExtStopTimer(name)

\* The machine with its timers followed callback by callback, and an
\* external caller that sends "go" and stops timers.
SpecTimer == Init /\ [][NextTimer]_vars

NextGlobal ==
    \/ Next
    \/ \E name \in TimerNames : ExtStopTimer(name)
    \/ \E name \in GlobalNames : ExtStartTimer(name)

\* The machine with an external caller that also starts timers of Global
\* scope and stops timers; a timer fires in one step.
SpecGlobal == Init /\ [][NextGlobal]_vars

\* ------------------------------------------------------- Stop, Start again ----

\* Machine.Stop by the external caller, first half: m.cancel().
StopCancel ==
    /\ Started
    /\ pc["ext"] = "idle"
    /\ cancelled' = TRUE
    /\ pc' = [pc EXCEPT !["ext"] = "stop"]
    /\ UNCHANGED <<initial, chain, before, active, reset, nav, firing, currentState, timers, events, mu, todo, casc, log, syncRes>>

\* Machine.Stop, second half: m.StopAllTimers(), and Stop returns.  The
\* callbacks that were launched are not stopped by timer.Stop().
StopAllTimers ==
    /\ pc["ext"] = "stop"
    /\ timers' = << >>
    /\ firing' = firing \o staleClosures(timers, timers')
    /\ pc' = [pc EXCEPT !["ext"] = "idle"]
    /\ UNCHANGED <<initial, chain, before, active, reset, cancelled, nav, currentState, events, mu, todo, casc, log, syncRes>>

\* eventLoop, the case <-m.ctx.Done() of its select: the loop returns.
\* With an event in the channel both cases of the select are ready and Go
\* chooses one of them at random: Dequeue stays possible.
LoopExit ==
    /\ pc["disp"] = "idle"
    /\ cancelled
    /\ pc' = [pc EXCEPT !["disp"] = "off"]
    /\ UNCHANGED <<initial, chain, before, active, reset, cancelled, nav, firing, currentState, timers, events, mu, todo, casc, log, syncRes>>

\* Machine.Start called again after Stop, once the event loop has returned:
\* a fresh context replaces the cancelled one and the initial state is
\* entered, with no exit of the current state; StartReturn launches a new
\* event loop.
StartAgain ==
    /\ pc["start"] = "done"
    /\ pc["ext"] = "idle"
    /\ pc["disp"] = "off"
    /\ cancelled
    /\ cancelled' = FALSE
    /\ pc' = [pc EXCEPT !["start"] = "run"]
    /\ todo' = [todo EXCEPT !["start"] = << mkOp("enter", initial, NoState) >>]
    /\ UNCHANGED <<initial, chain, before, active, reset, nav, firing, currentState, timers, events, mu, casc, log, syncRes>>

NextStop ==
    \/ NextTimer
    \/ StopCancel
    \/ StopAllTimers
    \/ LoopExit
    \/ StartAgain

\* The machine with its timers followed callback by callback and a caller
\* that sends "go", stops timers, stops the machine and starts it again.
SpecStop == Init /\ [][NextStop]_vars

\* ------------------------------------ the hierarchy navigator on its own ----

\* findLCA is called on two declared states.
NavCalls ==
    {[pc |-> "call", a |-> a, b |-> b, lca |-> NoState, exits |-> << >>, enters |-> << >>] :
        a \in StateIDs, b \in StateIDs}

InitNav == NewMachine /\ AtRest /\ nav \in NavCalls

\* lca := m.findLCA(fromState, toState)
FindLCA ==
    /\ nav.pc = "call"
    /\ nav' = [nav EXCEPT !.lca = findLCA(nav.a, nav.b), !.pc = "lca"]
    /\ UNCHANGED <<initial, chain, before, active, reset, cancelled, firing, currentState, timers, events, mu, pc, todo, casc, log, syncRes>>

\* The states m.exitToAncestor(fromState, lca) exits.
ExitToAncestor ==
    /\ nav.pc = "lca"
    /\ nav' = [nav EXCEPT !.exits = exitPath(nav.a, nav.lca), !.pc = "exited"]
    /\ UNCHANGED <<initial, chain, before, active, reset, cancelled, firing, currentState, timers, events, mu, pc, todo, casc, log, syncRes>>

\* path := m.pathFromAncestor(toState, lca)
PathFromAncestor ==
    /\ nav.pc = "exited"
    /\ nav' = [nav EXCEPT !.enters = pathFromAncestor(nav.b, nav.lca), !.pc = "done"]
    /\ UNCHANGED <<initial, chain, before, active, reset, cancelled, firing, currentState, timers, events, mu, pc, todo, casc, log, syncRes>>

NextNav == FindLCA \/ ExitToAncestor \/ PathFromAncestor

SpecNav == InitNav /\ [][NextNav]_vars

\* ------------------------------------- the entry cascade of any definition ----

\* The state ids the definitions declare, and an id none declares.
DefIDs == {"A", "B"}
Undeclared == "X"

\* A condition function that was not given (nil).
NoCondition == "nil"

\* The declarations of one state: State(id, WithParent, WithDefaultChild) and
\* JunctionState(id, cond, ...). Condition is what the condition function
\* returns.
DefStates ==
    {st \in [Parent : DefIDs \cup {NoState, Undeclared},
             DefaultChild : DefIDs \cup {NoState, Undeclared},
             Type : {StateNormal, StateJunction},
             Condition : DefIDs \cup {NoState, NoCondition}] :
        st.Type = StateNormal => st.Condition = NoCondition}

\* The definitions: the declared states and Initial(id). They declare no
\* transition.
Definitions ==
    [initial : DefIDs \cup {NoState, Undeclared}, states : [DefIDs -> DefStates]]

RECURSIVE parentWalk(_, _, _)
\* The loop of checkParentCycle: TRUE when it meets a state again.
parentWalk(d, current, visited) ==
    IF current = NoState THEN FALSE
    ELSE IF current \in visited THEN TRUE
    ELSE IF current \notin DOMAIN d.states THEN FALSE
    ELSE parentWalk(d, d.states[current].Parent, visited \cup {current})

\* Definition.checkParentCycle(id) returns an error.
checkParentCycle(d, id) == parentWalk(d, id, {})

\* Definition.Validate returns nil.
Validate(d) ==
    /\ d.initial # NoState
    /\ d.initial \in DOMAIN d.states
    /\ \A id \in DOMAIN d.states :
          /\ d.states[id].Parent # NoState => d.states[id].Parent \in DOMAIN d.states
          /\ d.states[id].DefaultChild # NoState => d.states[id].DefaultChild \in DOMAIN d.states
    /\ \A id \in DOMAIN d.states :
          d.states[id].Type \in {StateCondition, StateJunction} =>
              d.states[id].Condition # NoCondition
    /\ \A id \in DOMAIN d.states : ~checkParentCycle(d, id)

\* Build has accepted the definition; Start has not been called.
ChainCalls == {[def |-> d, pc |-> "built", id |-> NoState] : d \in {x \in Definitions : Validate(x)}}

InitChain ==
    /\ NewMachine
    /\ nav = NoNav /\ reset = NoReset /\ active = {} /\ before = << >>
    /\ chain \in ChainCalls

\* Machine.Start: m.enterState(m.definition.initial, nil, "").
ChainStart ==
    /\ chain.pc = "built"
    /\ chain' = [chain EXCEPT !.pc = "enter", !.id = chain.def.initial]
    /\ UNCHANGED <<initial, before, active, reset, cancelled, nav, firing, currentState, timers, events, mu, pc, todo, casc, log, syncRes>>

\* One call of enterState(id): the entry callback may fail; a Junction
\* state whose condition returns a state is exited, which may fail, and
\* enterState is called on that state; otherwise enterState is called on
\* the default child, if there is one, and else returns nil.
ChainEnter ==
    /\ chain.pc = "enter"
    /\ IF chain.id \notin DOMAIN chain.def.states
       THEN chain' = [chain EXCEPT !.pc = "err"]
       ELSE LET state == chain.def.states[chain.id]
            IN  \E enterOk \in BOOLEAN, exitOk \in BOOLEAN :
                  chain' =
                    IF ~enterOk THEN [chain EXCEPT !.pc = "err"]
                    ELSE IF /\ state.Type \in {StateCondition, StateJunction}
                            /\ state.Condition \notin {NoCondition, NoState}
                         THEN IF exitOk THEN [chain EXCEPT !.id = state.Condition]
                                        ELSE [chain EXCEPT !.pc = "err"]
                    ELSE IF state.DefaultChild # NoState
                         THEN [chain EXCEPT !.id = state.DefaultChild]
                    ELSE [chain EXCEPT !.pc = "nil"]
    /\ UNCHANGED <<initial, before, active, reset, cancelled, nav, firing, currentState, timers, events, mu, pc, todo, casc, log, syncRes>>

NextChain == ChainStart \/ ChainEnter

\* Start on every definition Build accepts; the goroutine that called it
\* is not held up for ever.
SpecChain == InitChain /\ [][NextChain]_vars /\ WF_vars(ChainStart) /\ WF_vars(ChainEnter)

\* ------------------------------------------------------ Context.ResetTimer ----

\* The entry callbacks that end with ctx.ResetTimer(name, d): <<state, name>>.
ResetCalls == {<<"B", timeoutName("B")>>, <<"B", "t1">>, <<"C1", "t1">>}

\* Goroutine t is not inside resetTimer.
CallerFree(t) == reset.t # t

\* The first critical section of Machine.resetTimer(name, d), called by the
\* entry callback that goroutine t has just run: without an entry of that
\* name it returns; else event, scope and owner of the entry are kept, its
\* time.Timer stopped and the entry deleted.
ResetTimerBegin(t, name) ==
    /\ reset = NoReset
    /\ pc[t] \in {"run", "ret"}
    /\ log[t] # << >>
    /\ log[t][Len(log[t])].k = "enter"
    /\ <<log[t][Len(log[t])].s, name>> \in ResetCalls
    /\ IF name \in DOMAIN timers
       THEN /\ reset' = [t |-> t, name |-> name, found |-> TRUE, event |-> timers[name].event,
                         scope |-> timers[name].scope, ownerState |-> timers[name].ownerState]
            /\ timers' = [n \in (DOMAIN timers) \ {name} |-> timers[n]]
            /\ firing' = firing \o staleClosures(timers, timers')
       ELSE /\ reset' = [NoReset EXCEPT !.t = t, !.name = name]
            /\ UNCHANGED <<timers, firing>>
    /\ UNCHANGED <<initial, chain, before, active, cancelled, nav, currentState, events, mu, pc, todo, casc, log, syncRes>>

\* The rest of resetTimer: startTimerInternal with what was kept (timer.go
\* 127), or the return when there was no entry; the callback returns.
ResetTimerEnd ==
    /\ reset # NoReset
    /\ timers' = IF reset.found
                 THEN startTimerInternal(timers, reset.name, reset.event, reset.scope, reset.ownerState)
                 ELSE timers
    /\ firing' = firing \o staleClosures(timers, timers')
    /\ log' = [log EXCEPT ![reset.t] =
                 Append(@, mkLog("reset", log[reset.t][Len(log[reset.t])].s, reset.name, 0))]
    /\ reset' = NoReset
    /\ UNCHANGED <<initial, chain, before, active, cancelled, nav, currentState, events, mu, pc, todo, casc, syncRes>>

\* The machine of SpecTimer with entry callbacks that reset timers; the
\* goroutine inside resetTimer goes on when resetTimer has returned.
NextReset ==
    \/ CallerFree("start") /\ Start
    \/ CallerFree("start") /\ StartReturn
    \/ \E t \in Threads : CallerFree(t) /\ EnterStep(t)
    \/ \E t \in Threads : CallerFree(t) /\ ExitStep(t)
    \/ \E t \in Threads : CallerFree(t) /\ ActionStep(t)
    \/ \E t \in Threads : CallerFree(t) /\ NotifyStep(t)
    \/ CallerFree("disp") /\ Dequeue
    \/ CallerFree("disp") /\ ProcessEvent
    \/ CallerFree("disp") /\ EventReturn
    \/ \E e \in TimerSends : DoSend(e)
    \/ \E name \in TimerNames : Launch(name)
    \/ \E name \in TimerNames : FireBegin(name)
    \/ \E i \in 1..MaxFiring : StaleRun(i)
    \/ \E i \in 1..MaxFiring : FireAction(i)
    \/ \E name \in TimerNames : ExtStopTimer(name)
    \/ \E t \in Threads, name \in TimerNames : ResetTimerBegin(t, name)
    \/ ResetTimerEnd

SpecReset == Init /\ [][NextReset]_vars

\* ------------------------------------------- a transition into a sub-state ----

\* The caller also sends the event that takes B to C2, the child of P that
\* is not its default child.
DeepSends == {"in"}

NextDeep ==
    \/ Next
    \/ \E e \in DeepSends : DoSend(e)

SpecDeep == Init /\ [][NextDeep]_vars

\* ------------------------------------------ the history of entries and exits ----

\* The machine of Spec with the entries and exits of its states recorded.
NextBalance ==
    \/ Start
    \/ StartReturn
    \/ \E t \in Threads : EnterTracked(t)
    \/ \E t \in Threads : ExitTracked(t)
    \/ \E t \in Threads : ActionStep(t)
    \/ \E t \in Threads : NotifyStep(t)
    \/ Dequeue
    \/ ProcessEvent
    \/ EventReturn
    \/ \E e \in SentEvents : DoSend(e)
    \/ \E e \in SentEvents : DoSendSync(e)
    \/ SendSyncReturn
    \/ \E id \in SetTargets : DoSetState(id)
    \/ SetStateReturn
    \/ \E name \in TimerNames : TimerFire(name)

SpecBalance == Init /\ [][NextBalance]_vars

\* ------------------------------------------------- a timer name started anew ----

\* The name the external caller starts a timer under while a timer of that
\* name, started by an entry callback with another event, may be active.
ReplacedNames == {"t1"}

\* The callbacks under way where a timer is replaced: one more, the callback
\* of the timer replaced besides that of its replacement.
MaxInFlight == MaxFiring + 1

NextReplace ==
    \/ Start
    \/ StartReturn
    \/ \E t \in Threads : EnterStep(t)
    \/ \E t \in Threads : ExitStep(t)
    \/ \E t \in Threads : ActionStep(t)
    \/ \E t \in Threads : NotifyStep(t)
    \/ Dequeue
    \/ ProcessEvent
    \/ EventReturn
    \/ \E e \in TimerSends : DoSend(e)
    \/ \E name \in TimerNames : Launch(name)
    \/ \E name \in TimerNames : FireBegin(name)
    \/ \E i \in 1..MaxInFlight : StaleRunWithin(i, MaxInFlight)
    \/ \E i \in 1..MaxInFlight : FireAction(i)
    \/ \E name \in ReplacedNames : ExtStartTimer(name)

\* The machine of SpecTimer with an external caller that starts a timer
\* under a name in use.
SpecReplace == Init /\ [][NextReplace]_vars

\* ------------------------------------------ the table an event started from ----

NextAbort ==
    \/ Start
    \/ StartReturn
    \/ \E t \in Threads : EnterStep(t)
    \/ \E t \in Threads : ExitStep(t)
    \/ \E t \in Threads : ActionStep(t)
    \/ \E t \in Threads : NotifyStep(t)
    \/ Dequeue
    \/ ProcessTracked
    \/ EventReturn
    \/ \E e \in SentEvents : DoSend(e)
    \/ \E e \in SentEvents : DoSendSync(e)
    \/ SendSyncReturn
    \/ \E id \in SetTargets : DoSetState(id)
    \/ SetStateReturn
    \/ \E name \in TimerNames : TimerFire(name)

\* The machine of Spec where the timer table each event is processed from
\* is kept.
SpecAbort == Init /\ [][NextAbort]_vars

\* ------------------------------------------- the vocabulary of the claims ----

\* The proper ancestors of a state, by the Parent relation.
RECURSIVE ProperAnc(_)
ProperAnc(id) ==
    IF id \notin StateIDs \/ states[id].Parent = NoState THEN {}
    ELSE {states[id].Parent} \cup ProperAnc(states[id].Parent)

AncOrSelf(id) == IF id \in StateIDs THEN {id} \cup ProperAnc(id) ELSE {}

Depth(id) == Cardinality(ProperAnc(id))

IsPseudo(id) == id \in StateIDs /\ states[id].Type \in {StateCondition, StateJunction}

\* The elements of the set S in the order of ascending key[x].
RECURSIVE SortBy(_, _)
SortBy(S, key) ==
    IF S = {} THEN << >>
    ELSE LET m == CHOOSE x \in S : \A y \in S : key[x] <= key[y]
         IN  << m >> \o SortBy(S \ {m}, key)

\* The candidates for event ev in leaf: first those declared on the leaf,
\* then those of each ancestor from the nearest, then the wildcard ones;
\* each group in declaration order.
Tier(leaf, src) ==
    IF src = leaf THEN 0
    ELSE IF src \in ProperAnc(leaf) THEN Depth(leaf) - Depth(src)
    ELSE Cardinality(StateIDs) + 1

OrderedCandidates(leaf, ev) ==
    LET C == {i \in TIdx : /\ transitions[i].Event = ev
                           /\ transitions[i].From \in AncOrSelf(leaf) \cup {WildcardState}}
        rank == [i \in C |-> Tier(leaf, transitions[i].From) * (Len(transitions) + 1) + i]
    IN  SortBy(C, rank)

\* The least common ancestor-or-self of two states ("" when there is none).
LCA(a, b) ==
    LET C == AncOrSelf(a) \cap AncOrSelf(b)
    IN  IF C = {} THEN NoState ELSE CHOOSE x \in C : \A y \in C : Depth(y) <= Depth(x)

\* The states from a state up to, and excluding, its ancestor anc (the root
\* when ""), as a set, and in the two orders.
Below(id, anc) == {x \in AncOrSelf(id) : anc = NoState \/ anc \in ProperAnc(x)}

UpPath(id, anc) ==
    SortBy(Below(id, anc), [x \in Below(id, anc) |-> 0 - Depth(x)])

DownPath(id, anc) ==
    LET p == UpPath(id, anc)
    IN  [k \in 1..Len(p) |-> p[Len(p) + 1 - k]]

\* The entries of the kinds ks in the log of goroutine t.
LogOf(t, ks) == SelectSeq(log[t], LAMBDA e : e.k \in ks)

StatesOf(l) == [k \in 1..Len(l) |-> l[k].s]

RECURSIVE IsSubseq(_, _)
IsSubseq(a, b) ==
    IF a = << >> THEN TRUE
    ELSE IF b = << >> THEN FALSE
    ELSE IF Head(a) = Head(b) THEN IsSubseq(Tail(a), Tail(b))
    ELSE IsSubseq(a, Tail(b))

\* The event loop has chosen (or found no) transition for its event.
Selected == pc["disp"] \in {"run", "ret"}

\* The event loop executes, or has executed, a transition.
InTransition == Selected /\ casc["disp"].chosen # 0

\* The transition of the event loop has completed without error.
Completed == InTransition /\ pc["disp"] = "ret" /\ casc["disp"].res = "nil"

\* ------------------------------------------------------------------ C1 ----

\* C1: for each processed event the guards are evaluated over the
\* candidates in the order leaf, ancestors from the nearest, wildcard, each
\* group in declaration order; the transition executed is the first
\* candidate without a guard or whose guard returned true; no guard is
\* evaluated after it and no action of another candidate runs, also when
\* the chosen transition fails.
C1_FirstPassingCandidate ==
    Selected =>
        LET c == casc["disp"]
            cands == OrderedCandidates(c.from, c.ev)
            pos == IF c.chosen = 0 THEN Len(cands) + 1
                   ELSE CHOOSE p \in 1..(Len(cands) + 1) :
                            p = Len(cands) + 1 \/ cands[p] = c.chosen
            acts == LogOf("disp", {"action"})
        IN  /\ c.chosen # 0 => pos <= Len(cands)
            /\ \A p \in 1..(pos - 1) : transitions[cands[p]].Guard
            /\ LogOf("disp", {"guard"}) =
                  [p \in 1..(pos - 1) |-> mkLog("guard", "", "false", cands[p])]
                  \o (IF c.chosen # 0 /\ transitions[c.chosen].Guard
                      THEN << mkLog("guard", "", "true", c.chosen) >> ELSE << >>)
            /\ Len(acts) <= 1
            /\ \A k \in 1..Len(acts) : acts[k].i = c.chosen
            /\ c.chosen = 0 => LogOf("disp", {"exit", "action", "enter", "notify"}) = << >>
            /\ Completed => \E k \in 1..Len(log["disp"]) :
                  log["disp"][k].k = "enter" /\ log["disp"][k].s = transitions[c.chosen].To

\* In leaf G the event "next" has a candidate on G, one on the ancestor P
\* and a wildcard one, all guarded: the wildcard one is executed.
C1_Witness ==
    /\ Completed
    /\ casc["disp"].from = "G"
    /\ casc["disp"].ev = "next"
    /\ casc["disp"].chosen = 7

\* ------------------------------------------------------------------ C2 ----

\* C2: in an event-driven transition from `from` to `to` the callbacks run
\* in this order: the exits of the states from `from` up to, excluding,
\* LCA(from, to), innermost first; then the action; then entries, among
\* them those of the states below the LCA down to `to`, outermost first.
\* After the action only a Condition/Junction state that has just been
\* entered is exited.
C2_ExitActionEntryOrder ==
    InTransition =>
        LET c == casc["disp"]
            to == transitions[c.chosen].To
            lca == LCA(c.from, to)
            X == UpPath(c.from, lca)
            n == Len(X)
            a == IF transitions[c.chosen].Action THEN 1 ELSE 0
            L == LogOf("disp", {"exit", "action", "enter"})
        IN  /\ \A k \in 1..Len(L) :
                 /\ k <= n => L[k].k = "exit" /\ L[k].s = X[k]
                 /\ k = n + 1 /\ a = 1 => L[k].k = "action" /\ L[k].i = c.chosen
                 /\ k > n + a =>
                      \/ L[k].k = "enter"
                      \/ /\ L[k].k = "exit"
                         /\ IsPseudo(L[k].s)
                         /\ L[k - 1].k = "enter"
                         /\ L[k - 1].s = L[k].s
            /\ Completed =>
                 /\ Len(L) >= n + a
                 /\ IsSubseq(DownPath(to, lca), StatesOf(LogOf("disp", {"enter"})))

\* The transition G --go--> C1 with an action has completed: G and C2 were
\* exited, the action ran, C1 was entered.
C2_Witness ==
    /\ Completed
    /\ casc["disp"].from = "G"
    /\ casc["disp"].chosen = 4

\* ------------------------------------------------------------------ C3 ----

\* The proper descendants of a state.
Desc(p) == {x \in StateIDs : p \in ProperAnc(x)}

\* The states one step of enterState's descent leads to from the states S:
\* a default child, or what a condition function may return.
DescentStep(S) ==
    S \cup {states[x].DefaultChild : x \in S} \cup UNION {condChoice(x) : x \in S}

\* The states the descent of enterState may reach from state a.
RECURSIVE ReachFromSet(_)
ReachFromSet(S) ==
    LET N == DescentStep(S) \cap StateIDs IN IF N = S THEN S ELSE ReachFromSet(N)

ReachFrom(a) == ReachFromSet({a})

\* The transition of the event loop has a source leaf and a target that are
\* two distinct proper descendants of p.
Within(p) ==
    /\ InTransition
    /\ casc["disp"].from \in Desc(p)
    /\ transitions[casc["disp"].chosen].To \in Desc(p)
    /\ casc["disp"].from # transitions[casc["disp"].chosen].To

\* No exit or entry callback of p or of an ancestor of p has run.
NoCallbackOf(p) ==
    \A k \in 1..Len(log["disp"]) :
        log["disp"][k].k \in {"enter", "exit"} => log["disp"][k].s \notin AncOrSelf(p)

\* Every condition function of the cascade has returned a descendant of p.
ResolvedWithin(p) ==
    \A k \in 1..Len(log["disp"]) :
        log["disp"][k].k = "cond" /\ log["disp"][k].x # NoState => log["disp"][k].x \in Desc(p)

\* The leaf is the last state entered, reached from the target by default
\* children and condition results.
LeafFromTarget ==
    LET E == LogOf("disp", {"enter"})
    IN  /\ E # << >>
        /\ currentState = E[Len(E)].s
        /\ currentState \in ReachFrom(transitions[casc["disp"].chosen].To)

\* A step of the cascade the event loop executes.
DispStep == pc["disp"] = "run" /\ log'["disp"] # log["disp"]

\* The timers owned by p or by an ancestor of p.
OwnedBy(p) == {n \in DOMAIN timers : timers[n].ownerState \in AncOrSelf(p)}

Untouched(n) == n \in DOMAIN timers' /\ timers'[n] = timers[n]

C3_StatePart ==
    \A p \in StateIDs : Within(p) =>
        /\ NoCallbackOf(p)
        /\ Completed =>
             /\ LeafFromTarget
             /\ ResolvedWithin(p) => isInStateInternal(currentState, p)

C3_StepPart ==
    \A p \in StateIDs : DispStep /\ Within(p) =>
        LET op == Head(todo["disp"])
        IN  \A n \in OwnedBy(p) :
              \/ Untouched(n)
              \/ op.k = "exit" /\ n \in states[op.s].DeclaredTimers
              \/ /\ op.k = "enter"
                 /\ op.s \notin AncOrSelf(p)
                 /\ n \in DOMAIN timers'
                 /\ timers'[n].ownerState = op.s

IsRestingState(id) == id \in StateIDs /\ states[id].Type \in {StateNormal, StateFinal}

\* C4: when Start returns nil the current leaf is a state of type Normal or
\* Final, whatever default children and Condition/Junction states the
\* initial state leads through.
C4_StartLeavesRestingState ==
    pc["start"] = "ret" /\ casc["start"].res = "nil" => IsRestingState(currentState)

\* ------------------------------------------------------------------ C5 ----

\* No transition is in progress: Start has returned, the event loop is
\* between two events, the external caller is in no SetState.
Quiescent ==
    /\ pc["start"] = "done"
    /\ pc["disp"] \in {"idle", "got"}
    /\ pc["ext"] \in {"idle", "sync"}

\* Every entry of a Condition/Junction state in the log l is followed by
\* its exit and by the entry of the state its condition function returned.
PseudoResolved(l) ==
    \A k \in 1..Len(l) :
        l[k].k = "enter" /\ IsPseudo(l[k].s) =>
            \E j \in (k + 1)..(Len(l) - 2) :
                /\ l[j].k = "cond" /\ l[j].s = l[k].s /\ l[j].x # NoState
                /\ l[j + 1].k = "exit" /\ l[j + 1].s = l[k].s
                /\ l[j + 2].k = "enter" /\ l[j + 2].s = l[j].x

\* C5: a Condition or Junction state is never a resting state: when no
\* transition is in progress the current leaf is of neither type, and in a
\* cascade that has returned nil every entry of such a state is followed by
\* its exit and the entry of the resolved state.
C5_PseudoNeverResting ==
    /\ Quiescent => ~IsPseudo(currentState)
    /\ \A t \in Threads : pc[t] = "ret" /\ casc[t].res = "nil" => PseudoResolved(log[t])

\* ------------------------------------------------------------------ C6 ----

\* The event loop has discarded its event: processEvent chose no transition.
Discarded == pc["disp"] = "ret" /\ casc["disp"].chosen = 0

\* Every candidate of the event has a guard, and each guard was evaluated
\* and returned false (so also: there is no candidate).
AllGuardsFalse ==
    LET cands == OrderedCandidates(casc["disp"].from, casc["disp"].ev)
        G == LogOf("disp", {"guard"})
    IN  /\ \A p \in 1..Len(cands) : transitions[cands[p]].Guard
        /\ Len(G) = Len(cands)
        /\ \A k \in 1..Len(G) : G[k].x = "false"

C6_StatePart ==
    /\ Selected /\ AllGuardsFalse => Discarded
    /\ Discarded =>
         /\ AllGuardsFalse
         /\ casc["disp"].res = "nil"
         /\ LogOf("disp", {"exit", "action", "enter", "cond", "error", "notify"}) = << >>
         /\ todo["disp"] = << >>
         /\ currentState = casc["disp"].from
    /\ pc["disp"] = "got" =>
         LET cands == OrderedCandidates(currentState, casc["disp"].ev)
             guarded == {cands[k] : k \in 1..Len(cands)} \cap {i \in TIdx : transitions[i].Guard}
         IN  \A gv \in [guarded -> BOOLEAN] :
                (\E k \in 1..Len(cands) : cands[k] \in guarded => gv[cands[k]])
                    => tryTransitions(findAllTransitions(currentState, casc["disp"].ev), gv).chosen # 0

C6_StepPart ==
    /\ pc["disp"] = "got" /\ pc'["disp"] = "ret" =>
         UNCHANGED <<currentState, timers, events, todo, syncRes>>
    /\ Discarded /\ pc'["disp"] = "idle" =>
         /\ UNCHANGED <<currentState, timers, events, todo>>
         /\ casc["disp"].sync => syncRes' = "nil"

\* C6: an event without a matching transition, or whose matching
\* transitions all have a guard that returns false, is discarded: its
\* processing leaves the current leaf, the timer table and the queue as
\* they are, runs no exit, action or entry callback, no condition function
\* and no notification, and returns nil, which is what SendSync receives.
\* Whatever was discarded before, an event received is not discarded when
\* one of its candidates has no guard or a guard that returns true.
C6_DiscardedEvent == []C6_StatePart /\ [][C6_StepPart]_vars

\* SendSync of "next" in leaf G with timers active: the guards of the three
\* candidates (on G, on P, wildcard) all returned false.
C6_Witness ==
    /\ Discarded
    /\ casc["disp"].sync
    /\ casc["disp"].ev = "next"
    /\ casc["disp"].from = "G"
    /\ Len(log["disp"]) = 3
    /\ timers # << >>

\* ------------------------------------------------------------------ C7 ----

\* The positions of the errors in the log of the event loop.
ErrorsAt == {k \in 1..Len(log["disp"]) : log["disp"][k].k = "error"}

C7_StatePart ==
    InTransition =>
        LET L == log["disp"]
        IN  /\ \A k \in ErrorsAt :
                 /\ k = Len(L)
                 /\ k > 1
                 /\ L[k - 1].k = L[k].x
                 /\ L[k - 1].s = L[k].s
                 /\ L[k - 1].i = L[k].i
                 /\ pc["disp"] = "ret"
                 /\ todo["disp"] = << >>
                 /\ casc["disp"].res = "err"
            /\ casc["disp"].res = "err" => ErrorsAt # {} /\ LogOf("disp", {"notify"}) = << >>
            /\ pc["disp"] = "ret" /\ ErrorsAt = {} => casc["disp"].res = "nil"

C7_StepPart ==
    /\ ErrorsAt # {} => log'["disp"] = log["disp"] \/ log'["disp"] = << >>
    /\ ErrorsAt # {} => UNCHANGED <<currentState>>
    /\ pc["disp"] = "ret" /\ pc'["disp"] = "idle" /\ casc["disp"].sync =>
          syncRes' = casc["disp"].res

\* C7: when an exit, action or entry callback of an event-driven transition
\* returns an error, the cascade stops there: the error is the last entry
\* of the cascade (no later exit, action, entry, condition function or
\* notification runs, the current leaf is not written again), processEvent
\* returns the error, and it is what the SendSync caller receives.
C7_ErrorStopsCascade == []C7_StatePart /\ [][C7_StepPart]_vars

\* SendSync of "go" in leaf G: G and C2 were exited, then the action of
\* G --go--> C1 returned an error; C1 was not entered.
C7_Witness ==
    /\ pc["disp"] = "ret"
    /\ casc["disp"].sync
    /\ casc["disp"].chosen = 4
    /\ casc["disp"].res = "err"
    /\ Len(log["disp"]) = 4
    /\ log["disp"][4] = mkLog("error", "", "action", 4)
    /\ currentState = "G"

\* ------------------------------------------------------------------ C8 ----

\* C8: an event-driven transition that completes without error invokes the
\* state change callback exactly once, as the last step of the cascade,
\* with (leaf before the event, leaf after the cascade), when the two
\* differ, and not at all when they are equal; no notification is made
\* before the cascade has finished, nor by Start, nor for a discarded event
\* or a failed transition.
C8_NotifyOnceIfChanged ==
    LET L == log["disp"]
        N == LogOf("disp", {"notify"})
        c == casc["disp"]
    IN  /\ LogOf("start", {"notify"}) = << >>
        /\ pc["disp"] # "ret" => N = << >>
        /\ pc["disp"] = "ret" /\ (c.chosen = 0 \/ c.res = "err") => N = << >>
        /\ Completed =>
             IF c.from # currentState
             THEN /\ N = << mkLog("notify", c.from, currentState, 0) >>
                  /\ L[Len(L)] = N[1]
             ELSE N = << >>

\* The transition B --go--> P has completed on P's default child C1, and
\* the callback was invoked with (B, C1).
C8_Witness ==
    /\ Completed
    /\ casc["disp"].chosen = 6
    /\ currentState = "C1"
    /\ LogOf("disp", {"notify"}) = << mkLog("notify", "B", "C1", 0) >>

\* ------------------------------------------------------------------ C9 ----

\* Goroutine t is in the middle of a cascade: it has run a callback and has
\* more calls to make.
Executing(t) == pc[t] = "run" /\ log[t] # << >>

\* C9: at any time at most one cascade is executing: the callbacks of an
\* event, of a SetState call and of Start never interleave.
C9_OneCascadeAtATime == Cardinality({t \in Threads : Executing(t)}) <= 1

\* ----------------------------------------------------------------- C10 ----

\* C10: no call of CurrentState or IsInState blocks for ever: a goroutine
\* that waits for the read lock of mu is not the one holding its write
\* lock.
C10_QueryReturns == \A t \in Threads : pc[t] = "rlock" => mu # t

\* ----------------------------------------------------------------- C11 ----

\* In the log l the exit of state S has completed (its exit callback has
\* returned without error) and S has not been entered since.
ExitedIn(l, S) ==
    \E k \in 1..Len(l) :
        /\ l[k].k = "exit" /\ l[k].s = S
        /\ ~(k < Len(l) /\ l[k + 1].k = "error")
        /\ \A j \in (k + 1)..Len(l) : ~(l[j].k = "enter" /\ l[j].s = S)

\* The active timers of State scope owned by S.
ScopedTimers(S) ==
    {n \in DOMAIN timers : timers[n].scope = TimerScopeState /\ timers[n].ownerState = S}

\* C11: once a cascade (an event-driven transition, the resolution of a
\* Condition/Junction state, SetState) has exited state S, no timer of
\* State scope owned by S is active, until S is entered again.
C11_ScopedCleanup ==
    \A t \in Threads, S \in StateIDs : ExitedIn(log[t], S) => ScopedTimers(S) = {}

\* ----------------------------------------------------------------- C12 ----

\* What may still enqueue an event for timer name n: its entry in the
\* table, and the fire callbacks that have removed their entry and are
\* about to run the action or to send.
Credits(n) ==
    (IF n \in DOMAIN timers THEN 1 ELSE 0)
    + Cardinality({i \in 1..Len(firing) : firing[i].name = n /\ firing[i].stage = "deleted"})

\* The states with a declarative timeout.
Timeouts == {s \in StateIDs : states[s].TimeoutEvent # ""}

\* The entries the starts of the program ask for: the declarative timeouts,
\* "t1" of the entry callbacks, the Global timers of the callers.
TimerCalls ==
    {mkTimerEntry(states[id].TimeoutEvent, TimerScopeState, id, id \in HasTimeoutAction) : id \in Timeouts}
    \cup {mkTimer("tmo", TimerScopeState, id) : id \in StartsTimer}
    \cup {mkTimer("go", TimerScopeGlobal, NoState)}

\* Starting under a name that is active leaves one fresh entry with the
\* parameters of the call and touches no other name.
C12_StatePart ==
    \A name \in DOMAIN timers, c \in TimerCalls :
        LET tm2 == startTimerInternalWithAction(timers, name, c.event, c.scope, c.ownerState, c.action)
        IN  /\ DOMAIN tm2 = DOMAIN timers
            /\ tm2[name] = c
            /\ \A n \in (DOMAIN timers) \ {name} : tm2[n] = timers[n]

\* The event appended to the queue by this step, if it is a timer's.
TimerEnqueued ==
    /\ Len(events') = Len(events) + 1
    /\ events'[Len(events')].ID \notin TimerSends

C12_StepPart ==
    /\ \A n \in TimerNames :
        /\ (n \in DOMAIN timers /\ n \in DOMAIN timers' /\ timers'[n] # timers[n]) =>
              \/ ~timers'[n].launched
              \/ timers'[n] = [timers[n] EXCEPT !.launched = TRUE]
        /\ Credits(n)' > Credits(n) => n \notin DOMAIN timers
    /\ TimerEnqueued =>
          \E n \in TimerNames : Credits(n)' = Credits(n) - 1

AttemptEnds(i) ==
    /\ i \in 1..Len(firing)
    /\ firing[i].stage = "deleted"
    /\ Len(firing') >= Len(firing) - 1
    /\ SubSeq(firing', 1, Len(firing) - 1) = RemoveAt(firing, i)
    /\ \A j \in Len(firing)..Len(firing') : firing'[j].stage = "launched"

\* This step is a failed attempt of the action of firing[i]: nothing is
\* enqueued and the timer table changes.
AttemptFails(i) ==
    /\ AttemptEnds(i)
    /\ firing[i].action
    /\ events' = events
    /\ timers' # timers

C13_StepPart ==
    \A i \in 1..Len(firing) :
        AttemptFails(i) =>
            LET c == firing[i]
            IN  /\ c.name \in DOMAIN timers'
                /\ timers'[c.name] = mkTimerEntry(c.event, c.scope, c.ownerState, c.action)
                /\ c.scope = TimerScopeState =>
                      \A t \in Threads : ~ExitedIn(log[t], c.ownerState)

\* C13: a failed attempt of a timer's action enqueues nothing and leaves a
\* timer with the same name, event, scope, owner and action active; once
\* the owner state of the timer has been exited no further restart occurs.
C13_RetryLaw == [][C13_StepPart]_vars

\* ----------------------------------------------------------------- C14 ----

\* The attempt of firing[i] that ends in this step succeeded (or the timer
\* has no action): the event is sent and the table left alone.
AttemptSucceeds(i) ==
    /\ AttemptEnds(i)
    /\ events' = Send(events, mkEvent(firing[i].event, FALSE))
    /\ timers' = timers
    /\ firing' = RemoveAt(firing, i)

\* The attempt of firing[i] that ends in this step failed: nothing is sent
\* and the timer is started again with the parameters of the callback.
AttemptRestarts(i) ==
    LET c == firing[i]
    IN  /\ AttemptEnds(i)
        /\ c.action
        /\ events' = events
        /\ timers' = startTimerInternalWithAction(timers, c.name, c.event, c.scope,
                                                  c.ownerState, c.action)

C14_StepPart ==
    /\ \A i \in 1..Len(firing) :
          AttemptEnds(i) => AttemptSucceeds(i) \/ AttemptRestarts(i)
    /\ TimerEnqueued =>
          \E i \in 1..Len(firing), n \in TimerNames :
              /\ AttemptSucceeds(i)
              /\ n = firing[i].name
              /\ Credits(n)' = Credits(n) - 1

PlainTimeouts == Timeouts \ HasTimeoutAction

\* This step runs the entry (the exit) of state S.
EntersNow(S) ==
    \E t \in Threads :
        /\ Len(log'[t]) > Len(log[t])
        /\ log'[t][Len(log[t]) + 1].k = "enter"
        /\ log'[t][Len(log[t]) + 1].s = S

ExitsNow(S) ==
    \E t \in Threads :
        /\ Len(log'[t]) > Len(log[t])
        /\ log'[t][Len(log[t]) + 1].k = "exit"
        /\ log'[t][Len(log[t]) + 1].s = S

\* This step ends the timeout timer of S.
TimeoutGoes(S) == timeoutName(S) \in DOMAIN timers /\ timeoutName(S) \notin DOMAIN timers'

C15_StepPart ==
    \A S \in Timeouts :
        LET n == timeoutName(S)
            e == states[S].TimeoutEvent
        IN  /\ EntersNow(S) =>
                  /\ n \in DOMAIN timers'
                  /\ timers'[n] = mkTimerEntry(e, TimerScopeState, S, S \in HasTimeoutAction)
            /\ (n \notin DOMAIN timers /\ n \in DOMAIN timers') => EntersNow(S)
            /\ TimeoutGoes(S) =>
                  \/ ExitsNow(S)
                  \/ /\ Len(events) < QueueSize
                     /\ events' = Append(events, mkEvent(e, FALSE))
                  \/ /\ Len(events) = QueueSize
                     /\ events' = events

OutsideCascades == log' = log /\ todo' = todo /\ currentState' = currentState

C16_StepPart ==
    \A n \in TimerNames :
        (n \in DOMAIN timers /\ timers[n].scope = TimerScopeGlobal) =>
            \/ Untouched(n)
            \* the exit of a state that declares the name
            \/ /\ \E id \in StateIDs : ExitsNow(id) /\ n \in states[id].DeclaredTimers
               /\ n \notin DOMAIN timers'
            \* replaced by the entry callback of id
            \/ \E id \in StartsTimer :
                  /\ EntersNow(id)
                  /\ n = "t1"
                  /\ timers'[n] = mkTimer("tmo", TimerScopeState, id)
            \* fired, or StopTimer
            \/ /\ OutsideCascades
               /\ n \notin DOMAIN timers'
               /\ events' \in {events, Send(events, mkEvent(timers[n].event, FALSE))}
            \* replaced by StartTimer
            \/ /\ OutsideCascades
               /\ n \in DOMAIN timers'
               /\ events' = events

Dequeues == pc["disp"] # "got" /\ pc'["disp"] = "got"

C17_StepPart ==
    \* the queue changes at its two ends only: an accepted event goes to
    \* the back, the event loop takes the one at the front
    /\ \/ events' = events
       \/ events # << >> /\ events' = Tail(events) /\ Dequeues
       \/ \E e \in EventIDs, sync \in BOOLEAN : events' = Append(events, mkEvent(e, sync))
    \* the event loop takes the front event, and only when the processing
    \* of the one before is complete
    /\ Dequeues =>
          /\ pc["disp"] = "idle"
          /\ todo["disp"] = << >>
          /\ mu # "disp"
          /\ events # << >>
          /\ events' = Tail(events)
          /\ casc'["disp"].ev = Head(events).ID
          /\ casc'["disp"].sync = Head(events).sync
    \* and that is the event whose guards, exits, action and entries it runs
    /\ (pc["disp"] = "got" /\ pc'["disp"] # "got") =>
          /\ casc'["disp"].ev = casc["disp"].ev
          /\ casc'["disp"].sync = casc["disp"].sync
          /\ events' = events

\* C17: accepted events are processed one at a time in the order in which
\* they were accepted: the queue grows at the back and is consumed at the
\* front, and the event loop takes the next event only when the processing
\* of the one before has completed.
C17_Fifo == [][C17_StepPart]_vars

\* "go" is being processed while "next" and then a synchronous "go",
\* accepted after it, wait in that order.
C17_Witness ==
    /\ pc["disp"] = "run"
    /\ casc["disp"].ev = "go"
    /\ events = << mkEvent("next", FALSE), mkEvent("go", TRUE) >>

\* ----------------------------------------------------------------- C18 ----

\* The synchronous events under way: in the queue, with the event loop, or
\* processed with the outcome waiting on the done channel.
SyncCount ==
    Cardinality({k \in 1..Len(events) : events[k].sync})
    + (IF pc["disp"] \in {"got", "run", "ret"} /\ casc["disp"].sync THEN 1 ELSE 0)
    + (IF syncRes # "" THEN 1 ELSE 0)

\* SendSync has been called and its envelope is nowhere.
Dropped == pc["ext"] = "sync" /\ SyncCount = 0

C18_StatePart ==
    /\ Len(events) <= QueueSize
    /\ Len(events) = QueueSize =>
          /\ \A e \in EventIDs, sync \in BOOLEAN : Send(events, mkEvent(e, sync)) = events
          \* the producers are not held up
          /\ (Started /\ pc["ext"] = "idle") =>
                \A e \in SentEvents : ENABLED DoSend(e) /\ ENABLED DoSendSync(e)
          /\ \A name \in DOMAIN timers : ENABLED TimerFire(name)

C18_StepPart ==
    Len(events) = QueueSize => events' = events \/ (events' = Tail(events) /\ Dequeues)

\* C18: Send never blocks: with the queue at its capacity the senders (the
\* callers of Send and SendSync, the timers) still take their step, the
\* event is discarded and the content of the queue is unchanged.
C18_SendNeverBlocks == []C18_StatePart /\ [][C18_StepPart]_vars

\* SendSync has sent its envelope into a full queue: the envelope is gone
\* and the queue is as full as before.
C18_Witness == Dropped /\ Len(events) = QueueSize

\* ----------------------------------------------------------------- C19 ----

C19_StatePart ==
    \* one synchronous event at most is under way, the caller's
    /\ SyncCount <= 1
    /\ pc["ext"] # "sync" => SyncCount = 0
    \* it is processed under the ID it was sent with
    /\ (pc["disp"] \in {"run", "ret"} /\ casc["disp"].sync) =>
          /\ casc["disp"].ev \in SentEvents
          /\ casc["disp"].chosen # 0 => transitions[casc["disp"].chosen].Event = casc["disp"].ev

C19_StepPart ==
    \* the outcome is handed over when the processing of the event is
    \* complete, and it is the outcome of that processing
    /\ (syncRes' # syncRes /\ syncRes' # "") =>
          /\ pc["disp"] = "ret" /\ pc'["disp"] = "idle"
          /\ casc["disp"].sync
          /\ todo["disp"] = << >>
          /\ syncRes = ""
          /\ syncRes' = casc["disp"].res
          /\ syncRes' = "nil" <=> ErrorsAt = {}
          /\ currentState' = currentState
    \* SendSync returns when the outcome has been handed over
    /\ (pc["ext"] = "sync" /\ pc'["ext"] # "sync") =>
          /\ syncRes # ""
          /\ syncRes' = ""
          /\ pc'["ext"] = "idle"

\* C19: SendSync returns only after the event loop has finished processing
\* the event it sent, under the ID it was sent with, and returns the
\* outcome of that processing: nil when a transition completed or none
\* applied, else the error of the callback that stopped it.
C19_SendSyncOutcome == []C19_StatePart /\ [][C19_StepPart]_vars

\* The synchronous event has been processed, a callback of its transition
\* returned an error, and the caller is about to receive it.
C19_Witness ==
    /\ pc["ext"] = "sync"
    /\ syncRes # ""
    /\ syncRes # "nil"
    /\ pc["disp"] = "idle"

\* ----------------------------------------------------------------- C20 ----

C20_StepPart ==
    \* the envelope is lost when, and only when, the queue is full
    /\ (pc["ext"] = "idle" /\ pc'["ext"] = "sync") =>
          (Dropped' <=> Len(events) = QueueSize)
    \* and the call stays where it is from then on
    /\ Dropped => Dropped'

\* C20: when the queue is full as SendSync sends its envelope, the envelope
\* is dropped and the call does not return.
C20_DroppedSendSyncHangs == [][C20_StepPart]_vars

\* The queue has been emptied, the event loop is idle, and the caller of
\* SendSync is still waiting for an envelope that was dropped.
C20_Witness ==
    /\ Dropped
    /\ events = << >>
    /\ pc["disp"] = "idle"

\* ----------------------------------------------------------------- C21 ----

\* Stop has returned, and Start has not been called since.
StopReturned == cancelled /\ pc["ext"] # "stop"

\* C21: once Stop has returned the event loop picks up no further event:
\* neither the events in the queue at that moment nor those sent later are
\* received from the channel, so none of them has its guards evaluated,
\* runs a callback or changes the current leaf.
C21_NoDispatchAfterStop == [][StopReturned => ~Dequeues]_vars

\* ----------------------------------------------------------------- C22 ----

\* C22: after Stop has returned the timer table is empty and stays empty,
\* and no fire callback runs its action, restarts its timer or enqueues its
\* event any more, the callbacks under way when Stop was called included.
C22_NoTimerAfterStop ==
    /\ [](StopReturned => DOMAIN timers = {})
    /\ [][StopReturned => \A i \in 1..Len(firing) : ~AttemptEnds(i)]_vars

\* ----------------------------------------------------------------- C23 ----

\* C23: a stopped machine is terminal: once Stop has cancelled the context
\* it stays cancelled, and a call of Start neither enters the initial
\* state again nor launches an event loop.
C23_StoppedIsTerminal ==
    [][cancelled =>
          /\ cancelled'
          /\ pc'["start"] = pc["start"]
          /\ todo'["start"] = todo["start"]
          /\ (pc["disp"] = "off" => pc'["disp"] = "off")]_vars


\* --- C24 ---

\* The cascade of a SetState call that went past its two early returns: the
\* leaf it started from, and the callbacks it has run so far.
SetStateRuns == pc["ext"] \in {"run", "ret"} /\ log["ext"] # << >>

\* The state of the last entry callback before position k of log l.
LastEntered(l, k) ==
    LET J == {j \in 1..(k - 1) : l[j].k = "enter"}
    IN  IF J = {} THEN NoState ELSE l[CHOOSE j \in J : \A i \in J : i <= j].s

C24_StatePart ==
    SetStateRuns =>
        LET l == log["ext"]
            old == casc["ext"].from
        IN  /\ l[1].k = "exit" /\ l[1].s = old
            /\ \A k \in 2..Len(l) :
                /\ l[k].k = "exit" =>
                      /\ IsPseudo(l[k].s)
                      /\ l[k - 1] = mkLog("cond", l[k].s, l[k - 1].x, 0)
                      /\ l[k].s = LastEntered(l, k)
                /\ l[k].k = "enter" =>
                      IF LastEntered(l, k) = NoState
                      THEN k = 2 /\ l[k].s \in SetTargets /\ l[k].s # old /\ l[k].x = old
                      ELSE /\ l[k].x = LastEntered(l, k)
                           /\ l[k].s \in (DescentStep({l[k].x}) \ {l[k].x, NoState})
                /\ l[k].k = "notify" =>
                      /\ k = Len(l)
                      /\ pc["ext"] = "ret"
                      /\ l[k].s = old
                      /\ l[k].x = currentState
                      /\ currentState = LastEntered(l, k)
                      /\ states[currentState].DefaultChild = NoState
                      /\ IsPseudo(currentState) =>
                            l[k - 1] = mkLog("cond", currentState, NoState, 0)
            /\ (pc["ext"] = "ret" /\ casc["ext"].res = "nil") => l[Len(l)].k = "notify"

\* The exit of the old leaf leaves the timeout timers of its ancestors
\* running.
C24_StepPart ==
    (pc["ext"] = "run" /\ log["ext"] = << >> /\ log'["ext"] # << >>) =>
        \A a \in ProperAnc(currentState) \cap StateIDs :
            timeoutName(a) \in DOMAIN timers => timeoutName(a) \in DOMAIN timers'

\* C24: SetState(t), for a declared state t other than the current leaf,
\* runs the exit of the current leaf and of no ancestor of it, enters t
\* itself first and then only what the default-child and pseudo-state
\* descent of t leads to, and ends with the state change notification from
\* the old leaf to the leaf reached.
C24_SetStateExitsLeafOnly == []C24_StatePart /\ [][C24_StepPart]_vars

C24_Witness ==
    /\ pc["ext"] = "ret"
    /\ casc["ext"].from = "C1"
    /\ timeoutName("P") \in DOMAIN timers
    /\ log["ext"] = << mkLog("exit", "C1", "", 0), mkLog("enter", "C2", "C1", 0),
                       mkLog("enter", "G", "C2", 0), mkLog("notify", "C1", "G", 0) >>


\* --- C25 ---

\* SetState has been called with an id that is not a declared state and is
\* about to return its error.
SetStateUnknown == pc["ext"] = "ret" /\ casc["ext"].res = "err" /\ log["ext"] = << >>

\* A callback or a notification of a cascade of SetState names declared
\* states only; the call that returns the unknown-state error has scheduled
\* nothing.
C25_StatePart ==
    /\ \A k \in 1..Len(todo["ext"]) :
          todo["ext"][k].k \in {"exit", "enter"} => todo["ext"][k].s \in StateIDs
    /\ \A k \in 1..Len(log["ext"]) : log["ext"][k].s \in StateIDs \cup {""}
    /\ SetStateUnknown => todo["ext"] = << >> /\ casc["ext"].from = currentState

\* The call and the return of a SetState that returns the unknown-state
\* error.
C25_StepPart ==
    /\ (~SetStateUnknown /\ SetStateUnknown') =>
          /\ pc["ext"] = "idle"
          /\ UNCHANGED <<currentState, timers, firing, events, log, todo>>
    /\ (SetStateUnknown /\ pc'["ext"] # "ret") =>
          /\ pc'["ext"] = "idle"
          /\ UNCHANGED <<currentState, timers, firing, events, log, todo>>

\* C25: SetState with an id that is not a declared state returns an error;
\* the current leaf and the timers are what they were, and no exit callback,
\* entry callback or state change notification has run.
C25_SetStateUnknown == []C25_StatePart /\ [][C25_StepPart]_vars

C25_Witness ==
    /\ SetStateUnknown
    /\ currentState = "G"
    /\ DOMAIN timers # {}


\* --- C26 ---

\* The machine with a caller that uses SendSync and SetState, and whose
\* other events come from the timers.
NextLive ==
    \/ Start
    \/ StartReturn
    \/ \E t \in Threads : EnterStep(t)
    \/ \E t \in Threads : ExitStep(t)
    \/ \E t \in Threads : ActionStep(t)
    \/ \E t \in Threads : NotifyStep(t)
    \/ Dequeue
    \/ ProcessEvent
    \/ EventReturn
    \/ \E e \in SentEvents : DoSendSync(e)
    \/ SendSyncReturn
    \/ \E id \in SetTargets : DoSetState(id)
    \/ SetStateReturn
    \/ \E name \in TimerNames : TimerFire(name)

\* The next call of the cascade goroutine t is in.
CascadeStep(t) == EnterStep(t) \/ ExitStep(t) \/ ActionStep(t) \/ NotifyStep(t)

\* The goroutines are scheduled: one that can take a step takes it, and the
\* event loop gets mu when mu is unlocked again and again (sync.Mutex hands
\* the lock over to a starving waiter).
SpecLive ==
    /\ Init /\ [][NextLive]_vars
    /\ \A t \in Threads : WF_vars(CascadeStep(t))
    /\ WF_vars(StartReturn)
    /\ WF_vars(Dequeue)
    /\ SF_vars(ProcessEvent)
    /\ WF_vars(EventReturn)
    /\ WF_vars(SetStateReturn)
    /\ WF_vars(SendSyncReturn)

\* processEvent is about to return the error of a callback of its transition.
TransitionFailed == pc["disp"] = "ret" /\ casc["disp"].res = "err"

\* The event loop, once launched, does not end.
C26_LoopGoesOn == pc["disp"] # "off" => pc'["disp"] # "off"

\* processEvent looks the event it was given up in the leaf that is current
\* when it has locked mu.
C26_StepPart ==
    (pc["disp"] = "got" /\ pc'["disp"] # "got") =>
        /\ casc'["disp"].ev = casc["disp"].ev
        /\ casc'["disp"].from = currentState
        /\ casc'["disp"].chosen # 0 =>
              \E k \in 1..Len(findAllTransitions(currentState, casc["disp"].ev)) :
                  findAllTransitions(currentState, casc["disp"].ev)[k] = casc'["disp"].chosen

\* C26: after a transition has failed the event loop keeps running: it
\* returns to its select, the events in the queue from then on are
\* dequeued and processed against the leaf current at that time, and a
\* SendSync whose envelope was accepted returns.
C26_LoopSurvivesFailure ==
    /\ [][C26_LoopGoesOn /\ C26_StepPart]_vars
    /\ [](TransitionFailed =>
            /\ <>(pc["disp"] = "idle")
            /\ []((events # << >>) => <>(pc["disp"] = "got"))
            /\ []((pc["ext"] = "sync" /\ ~Dropped) => <>(pc["ext"] = "idle")))

\* A transition has failed while the next event, a synchronous one, is in
\* the queue and its sender waiting.
C26_Witness ==
    /\ TransitionFailed
    /\ ~casc["disp"].sync
    /\ events # << >>
    /\ Head(events).sync
    /\ pc["ext"] = "sync"


\* --- C27 ---

\* C27: once the current leaf is a state of type Final, no event the event
\* loop processes changes the current leaf.
C27_FinalIsTerminal ==
    [][(currentState \in StateIDs /\ states[currentState].Type = StateFinal /\ mu = "disp")
          => currentState' = currentState]_vars


\* --- C28 ---

\* C28: for declared states a and b, findLCA(a, b) is the deepest state
\* that is an ancestor or self of both, the root "" when they have none;
\* the states exited from a and the path entered to b are the states of the
\* parent chain of a (of b) strictly below it, each once, the first from
\* the leaf upwards and the second down to the leaf.
C28_NavigatorPaths ==
    /\ nav.pc \in {"lca", "exited", "done"} => nav.lca = LCA(nav.a, nav.b)
    /\ nav.pc \in {"exited", "done"} => nav.exits = UpPath(nav.a, nav.lca)
    /\ nav.pc = "done" =>
          /\ nav.enters = DownPath(nav.b, nav.lca)
          /\ \A k \in 1..Len(nav.enters) :
                /\ nav.enters[k] \in AncOrSelf(nav.b) \ AncOrSelf(nav.a)
                /\ \A j \in 1..Len(nav.enters) : nav.enters[j] = nav.enters[k] => j = k
                /\ parentOf(nav.enters[k]) = IF k = 1 THEN nav.lca ELSE nav.enters[k - 1]
          /\ \A k \in 1..Len(nav.exits) :
                /\ nav.exits[k] \in AncOrSelf(nav.a) \ AncOrSelf(nav.b)
                /\ \A j \in 1..Len(nav.exits) : nav.exits[j] = nav.exits[k] => j = k
                /\ parentOf(nav.exits[k]) = IF k = Len(nav.exits) THEN nav.lca ELSE nav.exits[k + 1]
          /\ (nav.exits # << >>) => nav.exits[1] = nav.a
          /\ (nav.enters # << >>) => nav.enters[Len(nav.enters)] = nav.b

C28_Witness ==
    /\ nav.pc = "done"
    /\ nav.a = "G" /\ nav.b = "C1"
    /\ nav.lca = "P"
    /\ nav.exits = << "G", "C2" >>
    /\ nav.enters = << "C1" >>


\* --- C29 ---

\* The fire callbacks of timer n that have removed their entry and have
\* their action or their Send still to come.
Fired(f, n) == {i \in 1..Len(f) : f[i].name = n /\ f[i].stage = "deleted"}

\* In this step a fire callback of timer n finds its entry.
BeginsFire(n) == Cardinality(Fired(firing', n)) > Cardinality(Fired(firing, n))

C29_StepPart ==
    \A n \in TimerNames :
        \* the callback removes the entry before anything else
        /\ BeginsFire(n) => TimerActive(timers, n) /\ ~TimerActive(timers', n)
        \* while its action runs the name is active only if started anew
        /\ (Fired(firing, n) # {} /\ ~TimerActive(timers, n) /\ TimerActive(timers', n)) =>
              /\ ~timers'[n].launched
              /\ \/ \E i \in Fired(firing, n) : AttemptRestarts(i)
                 \/ EntersNow(timers'[n].ownerState)
        \* the Send of the event, and a fire without retry, leave the table alone
        /\ \A i \in Fired(firing, n) : (AttemptEnds(i) /\ ~AttemptRestarts(i)) =>
              /\ timers' = timers
              /\ events' = Send(events, mkEvent(firing[i].event, FALSE))

\* C29: the fire callback of a timer removes the timer's entry before it
\* runs the action and before it sends the event: while the action runs and
\* when the event is sent the name is inactive unless it was started again,
\* and a fire without retry leaves it inactive.
C29_RemovedBeforeFire == [][C29_StepPart]_vars

\* The action of the timeout timer of B is running and the timer inactive.
C29_Witness ==
    \E i \in 1..Len(firing) :
        /\ firing[i].stage = "deleted"
        /\ firing[i].action
        /\ firing[i].name = timeoutName("B")
        /\ ~TimerActive(timers, firing[i].name)


\* --- C30 ---

\* C30: a fire callback of a timer of State scope does not enqueue its event
\* once a cascade has exited the owner state of the timer.
C30_NoEventAfterExit ==
    [][\A i \in 1..Len(firing) :
          (AttemptSucceeds(i) /\ firing[i].scope = TimerScopeState /\ events' # events) =>
              \A t \in Threads : ~ExitedIn(log[t], firing[i].ownerState)]_vars


\* --- C31 ---

\* The transition of the event loop has been aborted by the error of a
\* callback: the error, last in the log, and the callback that returned it.
Aborted == InTransition /\ pc["disp"] = "ret" /\ casc["disp"].res = "err"

AbortError == log["disp"][Len(log["disp"])]

\* The failing exit callback belongs to the exit path of the transition:
\* no state has been entered yet.
OnExitPath == \A k \in 1..Len(log["disp"]) : log["disp"][k].k # "enter"

\* The claim as it stands: every failing exit callback leaves the leaf the
\* transition started from.
C31_AsStated ==
    Aborted =>
        /\ AbortError.x \in {"exit", "action"} => currentState = casc["disp"].from
        /\ AbortError.x = "enter" => currentState = AbortError.s

\* C31: after a transition aborted by a failing exit callback of its exit
\* path or by its failing action the current leaf is the leaf the
\* transition started from; after one aborted by the failing entry callback
\* of state s, or by the failing exit callback of a Condition/Junction state
\* s that was entered and resolved, the current leaf is s.
C31_LeafAtFailure ==
    Aborted =>
        /\ AbortError.k = "error"
        /\ AbortError.x = "action" => currentState = casc["disp"].from
        /\ (AbortError.x = "exit" /\ OnExitPath) => currentState = casc["disp"].from
        /\ AbortError.x = "enter" => currentState = AbortError.s
        /\ (AbortError.x = "exit" /\ ~OnExitPath) =>
              /\ IsPseudo(AbortError.s)
              /\ currentState = AbortError.s

\* The entry callback of C1, entered from G after the exits of G and C2 and
\* the action, has failed: C1 is the current leaf.
C31_Witness ==
    /\ Aborted
    /\ casc["disp"].from = "G"
    /\ AbortError = mkLog("error", "C1", "enter", 0)
    /\ currentState = "C1"


\* --- C32 ---

\* A timeout timer declared with a TimeoutAction carries it while active.
C32_StatePart ==
    \A id \in HasTimeoutAction :
        TimerActive(timers, timeoutName(id)) => timers[timeoutName(id)].action

C32_StepPart ==
    \* the timer found is stopped, and what it was is kept
    /\ (reset = NoReset /\ reset' # NoReset) =>
          IF TimerActive(timers, reset'.name)
          THEN /\ reset'.found
               /\ reset'.event = timers[reset'.name].event
               /\ reset'.scope = timers[reset'.name].scope
               /\ reset'.ownerState = timers[reset'.name].ownerState
          ELSE ~reset'.found /\ timers' = timers
    \* it is started again as it was; no timer comes of an inactive name
    /\ (reset # NoReset /\ reset' = NoReset) =>
          IF reset.found
          THEN /\ TimerActive(timers', reset.name)
               /\ timers'[reset.name].event = reset.event
               /\ timers'[reset.name].scope = reset.scope
               /\ timers'[reset.name].ownerState = reset.ownerState
               /\ \A n \in DOMAIN timers \ {reset.name} : n \in DOMAIN timers' /\ timers'[n] = timers[n]
          ELSE timers' = timers

\* C32: ResetTimer(name, d) on an active timer stops it and starts it again
\* with the event, the scope, the owner and the action it had (the timeout
\* timer of a state with a TimeoutAction still carries the action); on a
\* name that is not active it does nothing.
C32_ResetKeepsTimer == []C32_StatePart /\ [][C32_StepPart]_vars


\* --- C33 ---

\* The states of a sequence.
Range(q) == {q[k] : k \in 1..Len(q)}

\* C33: a transition enters the states on the path from below the LCA down
\* to its target and the states of the default-child/pseudo-state descent
\* below the target, and no other: the default child of a composite state
\* on the path, when it is not the next state of the path, is not entered
\* and its timeout timer is not started.
C33_EntersPathOnly ==
    InTransition =>
        LET from == casc["disp"].from
            to == transitions[casc["disp"].chosen].To
        IN  \A k \in 1..Len(log["disp"]) :
                log["disp"][k].k = "enter" =>
                    log["disp"][k].s \in Range(pathFromAncestor(to, findLCA(from, to))) \cup ReachFrom(to)


\* --- C34 ---

\* C34: for every state S the runs of its entry and of its exit alternate,
\* beginning with an entry: the entry of S does not run while S is active
\* (entered and not exited since) and the exit of S does not run while S is
\* not active.
C34_EntryExitBalance ==
    [][\A S \in StateIDs :
          /\ EntersNow(S) => S \notin active
          /\ ExitsNow(S) => S \in active]_vars


\* --- C35 ---

\* C35: whenever no transition is in progress every active timer of State
\* scope is owned by the current leaf or by one of its ancestors.
C35_TimersOnActiveChain ==
    Quiescent =>
        \A n \in DOMAIN timers :
            timers[n].scope = TimerScopeState => timers[n].ownerState \in AncOrSelf(currentState)


\* --- C36 ---

\* C36: the fire callback that removes the entry of a timer name sends the
\* event of that entry: the callback of a timer that was replaced by a
\* start of the same name does not remove the new entry, and the event of
\* the replaced timer is not the one enqueued.
C36_FiresOwnEvent ==
    [][\A n \in TimerNames :
          BeginsFire(n) =>
              \A i \in Fired(firing', n) :
                  (i \notin Fired(firing, n)) =>
                      firing'[i].event = timers[n].event]_vars


\* --- C37 ---

\* C37: a transition aborted by a failing exit callback of its exit path or
\* by its failing action leaves the timer table as it was when the event
\* was taken: no timer of the states exited so far has been cancelled.
C37_AbortKeepsTimers ==
    (Aborted /\ OnExitPath /\ AbortError.x \in {"exit", "action"}) => timers = before


\* --- C38 ---

\* C38: the state change callback is never invoked with the same state as
\* from and to, neither at the end of a transition nor at the end of
\* SetState, also when SetState resolves back into the leaf it left.
C38_NotifyIsChange ==
    \A t \in Threads : \A k \in 1..Len(log[t]) :
        log[t][k].k = "notify" => log[t][k].s # log[t][k].x

\* --- C39 ---

\* C39: on every definition that Validate accepts the entry cascade of
\* Start ends after finitely many state entries, whatever the chains of
\* default children and of resolutions of Junction states are.
C39_CascadeEnds == <>(chain.pc \in {"nil", "err"})

====
